---- MODULE Spec2Model ----
(***************************************************************************)
(* The fixed-timestep loop of the canvas engine (Engine.start, pause,      *)
(* resume, update, render) together with the event queue it feeds          *)
(* (EventHandler.queueEvent, dispatchQueue).                               *)
(*                                                                         *)
(* JavaScript runs every handler to completion, so one Engine.update       *)
(* invocation is a chain of steps that nothing else can interleave with:   *)
(* UpdateBegin, then one TickIteration per pass of the while loop, then    *)
(* RenderAndSweep.  pc is the position inside that invocation; every other *)
(* action needs pc = "idle".  What the scene ticks and event callbacks     *)
(* called in a pass do to the engine (nothing, pause() or throw) is an     *)
(* input of TickIteration.                                                 *)
(*                                                                         *)
(* Numbers.  The engine computes in binary64.  Timestamps are taken on the *)
(* integer-millisecond grid; 1000 / 60 lies in [16, 32), where the spacing *)
(* of binary64 is 2^-48, so every value the loop computes is a multiple of *)
(* 2^-48 ms.  A value is <<ms, f2, f1, f0>> and stands for                 *)
(* ms + f2/2^16 + f1/2^32 + f0/2^48 with ms an integer and the three       *)
(* fraction limbs in 0 .. 2^16 - 1.  RoundF64 rounds such a value to 53    *)
(* significant bits, ties to even, as the hardware does; Add and Sub are   *)
(* the rounded sum and difference the code computes, ExactAdd and ExactSub *)
(* the real ones.                                                          *)
(*                                                                         *)
(* Fields of Engine that no behaviour reads (_FPS, the runtime counter,    *)
(* updatesSinceEngineStart, updateID, the canvas size) are left out.       *)
(*                                                                         *)
(* Specifications.  Spec is the engine loop.  SpecScenes is the same loop  *)
(* at a steady frame rate with scenes being queued for disposal.           *)
(* SpecPause is the same loop with short frames, in which the lag the      *)
(* engine had when a pause took effect is followed through the pause and   *)
(* a pause that the completion of start lifts is recorded.                 *)
(* SpecInput is the event queues of an EventHandler next to a running      *)
(* engine: input events, pause and resume.  SpecEvents adds the frames of  *)
(* the engine, whose tick iterations call dispatchQueue with the           *)
(* registered callbacks.                                                   *)
(* SpecRegistry is registerEventCallback and unregisterEventCallback.      *)
(* SpecActor is Actor.performUpdates and performDrawCalls.                 *)
(* SpecAnimation is the textures and animation states of an actor         *)
(* (addTexture, removeTexture, addAnimationState, removeAnimationState,    *)
(* setAnimationState) with the animation performUpdates advances;          *)
(* SpecAnimationStates is the same actor with one sprite sheet and longer  *)
(* call sequences.  SpecTextures is a texture handler, SpecActors the      *)
(* actors array and update cycle of the first engine, SpecShapes two       *)
(* convex shapes and their collision test.  Each leaves the variables of   *)
(* the other parts as they are after construction.                         *)
(***************************************************************************)
EXTENDS Integers, Sequences, FiniteSets, TLC

VARIABLES
  now,                      \* host clock: timestamp of the current display frame, ms
  frames,                   \* display frames elapsed so far
  rafPending,               \* requestAnimationFrame(update) calls waiting for the next frame
  rafRunning,               \* update callbacks of the current frame not yet run
  startCalls,               \* calls of Engine.start made so far
  startThrows,              \* those of them that raised "already started"
  startsAwaiting,           \* start() calls suspended at `await Promise.all(...)`
  isStarted,                \* Engine.isStarted
  isPreloaded,              \* Engine.isPreloaded
  isPaused,                 \* Engine._isPaused
  lag,                      \* Engine.lag
  previousUpdateTimestamp,  \* Engine.previousUpdateTimestamp
  scenes,                   \* Engine.scenes, in insertion order
  enginePauseStateCallback, \* EventHandler.enginePauseStateCallback
  queuedEventPayloads,      \* EventHandler.queuedEventPayloads
  pc,                       \* position inside the running Engine.update invocation
  cycleUpdateCount,         \* the local cycleUpdateCount of Engine.update
  frame,                    \* what the last Engine.update invocation did (observation)
  callbackRegistry,         \* EventHandler.callbackRegistry
  calls,                    \* how many calls the EventHandler has received so far
  call,                     \* what the last EventHandler call did (observation)
  actor,                    \* an Actor: its fields, and what its last call did
  textureCache,             \* a TextureHandler: its cache, and what its last call did
  actors,                   \* the actors array of the first engine, and its cycles
  shapes                    \* two ConvexShapes, and the last collision check

vars ==
  <<now, frames, rafPending, rafRunning, startCalls, startThrows,
    startsAwaiting, isStarted, isPreloaded, isPaused, lag,
    previousUpdateTimestamp, scenes, enginePauseStateCallback,
    queuedEventPayloads, pc, cycleUpdateCount, frame, callbackRegistry,
    calls, call, actor, textureCache, actors, shapes>>

----------------------------------------------------------------------------
(* Bounds of the model *)

\* display frames a behaviour runs through
MaxFrames == 2

\* calls of Engine.start a behaviour makes
MaxStarts == 2

\* a scene tick or event callback pauses the engine or throws only in the
\* first CallbackWindow tick iterations of an invocation
CallbackWindow == 1

\* input events a behaviour of the event queues receives
MaxEvents == 4

\* input events a behaviour with dispatch cycles receives
MaxDispatchedEvents == 2

\* Engine.update invocations a behaviour with dispatch cycles runs through
MaxEventFrames == 2

\* tick iterations of one such invocation
MaxTicks == 2

\* calls of registerEventCallback and unregisterEventCallback
MaxRegistryCalls == 3

\* calls of performUpdates, and of performDrawCalls, on the actor
MaxActorCalls == 2

\* calls of performUpdates on the animated actor
MaxAnimationUpdates == 8

\* calls that change the textures and animation states of the animated actor
MaxAnimationCalls == 3

\* calls that change the textures and animation states of the actor with
\* one sprite sheet, and calls of performUpdates on it
MaxStateCalls == 5

MaxStateUpdates == 2

\* calls on the texture handler
MaxCacheCalls == 4

\* update cycles of the first engine
MaxCycles == 2

\* calls of move and checkCollisionm on the two shapes
MaxShapeCalls == 2

\* time between two display frames, in ms: less than one tick, three ticks
\* less a rounding error, twelve ticks less a rounding error, and just over
\* maxUpdatesPerFrame ticks
FrameDeltas == {10, 50, 200, 4001}

----------------------------------------------------------------------------
(* Program constants *)

TARGET_FPS == 60

MAX_UPDATES_PER_FRAME == 240

maxUpdatesPerFrame == MAX_UPDATES_PER_FRAME

----------------------------------------------------------------------------
(* binary64 values on the 2^-48 grid *)

LimbBase == 2 ^ 16

Zero == <<0, 0, 0, 0>>

Ms(n) == <<n, 0, 0, 0>>

\* propagate carries (and borrows: \div rounds down, % is non-negative)
Carry(ms, a, b, c) ==
  LET c1 == c \div LimbBase
      b1 == (b + c1) \div LimbBase
      a1 == (a + b1) \div LimbBase
  IN  <<ms + a1, (a + b1) % LimbBase, (b + c1) % LimbBase, c % LimbBase>>

ExactAdd(x, y) == Carry(x[1] + y[1], x[2] + y[2], x[3] + y[3], x[4] + y[4])

ExactSub(x, y) == Carry(x[1] - y[1], x[2] - y[2], x[3] - y[3], x[4] - y[4])

Neg(x) == ExactSub(Zero, x)

Times(x, n) == Carry(x[1] * n, x[2] * n, x[3] * n, x[4] * n)

Less(x, y) ==
  \/ x[1] < y[1]
  \/ x[1] = y[1] /\ x[2] < y[2]
  \/ x[1] = y[1] /\ x[2] = y[2] /\ x[3] < y[3]
  \/ x[1] = y[1] /\ x[2] = y[2] /\ x[3] = y[3] /\ x[4] < y[4]

Geq(x, y) == ~Less(x, y)

RECURSIVE BitLen(_)
BitLen(n) == IF n = 0 THEN 0 ELSE 1 + BitLen(n \div 2)

\* a non-negative value rounded to 53 significant bits, ties to even: with
\* BitLen(ms) bits before the point, 53 - BitLen(ms) of the 48 fraction bits
\* are kept, so the lowest BitLen(ms) - 5 bits of f0 are rounded away
RoundMag(x) ==
  LET s == BitLen(x[1]) - 5
  IN  IF s <= 0 THEN x
      ELSE LET p  == 2 ^ s
               q  == x[4] \div p
               r  == x[4] % p
               up == \/ 2 * r > p
                     \/ 2 * r = p /\ q % 2 = 1
           IN  Carry(x[1], x[2], x[3], (q + (IF up THEN 1 ELSE 0)) * p)

RoundF64(x) == IF x[1] < 0 THEN Neg(RoundMag(Neg(x))) ELSE RoundMag(x)

\* a division that drops the bits after the 48th instead of rounding: the
\* quotient of 1000 / 60 would then lie below 50 / 3
DivTruncated(a, b) ==
  LET r0 == a % b
      r1 == (r0 * LimbBase) % b
      r2 == (r1 * LimbBase) % b
  IN  <<a \div b, (r0 * LimbBase) \div b, (r1 * LimbBase) \div b,
        (r2 * LimbBase) \div b>>

\* a / b in binary64 for naturals a, b with 16 <= a / b < 32: the quotient to
\* 48 fraction bits, rounded to nearest, ties to even
DivF64(a, b) ==
  LET r0 == a % b
      r1 == (r0 * LimbBase) % b
      r2 == (r1 * LimbBase) % b
      r3 == (r2 * LimbBase) % b
      q3 == (r2 * LimbBase) \div b
      up == \/ 2 * r3 > b
            \/ 2 * r3 = b /\ q3 % 2 = 1
  IN  Carry(a \div b, (r0 * LimbBase) \div b, (r1 * LimbBase) \div b,
            q3 + (IF up THEN 1 ELSE 0))

\* x + y and x - y as binary64 computes them
Add(x, y) == RoundF64(ExactAdd(x, y))

Sub(x, y) == RoundF64(ExactSub(x, y))

targetTickDurationMilliseconds == DivF64(1000, TARGET_FPS)

\* lag / targetTickDurationMilliseconds, kept as the exact fraction.  binary64
\* rounds the quotient, which moves it across neither 0 nor 1.
Quotient(x, y) == [num |-> x, den |-> y]

----------------------------------------------------------------------------
(* EventHandler *)

\* the keys of queuedEventPayloads, in the order `for (const type in ...)`
\* visits them
EventTypes ==
  <<"onmousedown", "whilemousedown", "onmouseup", "onmousemove", "onkeydown",
    "whilekeydown", "onkeyup", "onresize", "ontick", "onrender">>

EventTypeSet == {EventTypes[i] : i \in 1..Len(EventTypes)}

EmptyQueues == [t \in EventTypeSet |-> <<>>]

\* the predicate the engine hands to the event handler when its pause state
\* is set: it reports whether the engine is running
EngineRunningPredicate(paused) == ~paused

\* what enginePauseStateCallback() returns: the initial callback is
\* () => false
PauseStateCallbackResult(callback, paused) ==
  IF callback = "default" THEN FALSE ELSE EngineRunningPredicate(paused)

\* removes one entry only: the first one for that button
WithoutFirstButton(entries, button) ==
  IF \A i \in 1..Len(entries) : entries[i].button # button THEN entries
  ELSE LET first == CHOOSE i \in 1..Len(entries) :
                      /\ entries[i].button = button
                      /\ \A j \in 1..(i - 1) : entries[j].button # button
       IN SubSeq(entries, 1, first - 1) \o SubSeq(entries, first + 1, Len(entries))

\* filter((event) => event.button !== payload.button)
WithoutButton(entries, button) ==
  SelectSeq(entries, LAMBDA event : event.button # button)

\* filter((event) => event.key !== payload.key)
WithoutKey(entries, key) ==
  SelectSeq(entries, LAMBDA event : event.key # key)

\* {...payload, type: type}
WithType(payload, type) == [payload EXCEPT !.type = type]

\* queueEvent: the gate on the pause-state callback, then the switch on the
\* event type
QueueEvent(queues, callback, paused, type, payload) ==
  IF ~PauseStateCallbackResult(callback, paused) THEN queues
  ELSE CASE type = "onmousedown" ->
              [queues EXCEPT
                 ![type] = Append(@, payload),
                 !["whilemousedown"] =
                    Append(@, WithType(payload, "whilemousedown"))]
         [] type = "onmouseup" ->
              [queues EXCEPT
                 ![type] = Append(@, payload),
                 !["whilemousedown"] = WithoutButton(@, payload.button)]
         [] type = "onkeydown" ->
              [queues EXCEPT
                 ![type] = Append(@, payload),
                 !["whilekeydown"] =
                    Append(@, WithType(payload, "whilekeydown"))]
         [] type = "onkeyup" ->
              [queues EXCEPT
                 ![type] = Append(@, payload),
                 !["whilekeydown"] = WithoutKey(@, payload.key)]
         [] OTHER -> [queues EXCEPT ![type] = Append(@, payload)]

RemoveAt(q, i) == SubSeq(q, 1, i) \o SubSeq(q, i + 2, Len(q))

\* for (let i = 0; i < queuedPayloads.length; i++) queuedPayloads.splice(i, 1)
RECURSIVE SpliceLoop(_, _)
SpliceLoop(q, i) ==
  IF i < Len(q) THEN SpliceLoop(RemoveAt(q, i), i + 1) ELSE q

\* the clearing loop without the `continue` for the level-triggered types
ClearQueueOfEveryType(type, q) == SpliceLoop(q, 0)

ClearQueue(type, q) ==
  IF type = "whilemousedown" \/ type = "whilekeydown" THEN q
  ELSE SpliceLoop(q, 0)

\* the position of each key in that order
TypeIndex ==
  [t \in EventTypeSet |-> CHOOSE i \in 1..Len(EventTypes) : EventTypes[i] = t]

\* dispatchQueue; a callback that throws while type number throwAt is being
\* delivered ends the call there (throwAt = 0: no callback throws)
DispatchQueue(queues, throwAt) ==
  [t \in EventTypeSet |->
     IF throwAt # 0 /\ TypeIndex[t] >= throwAt THEN queues[t]
     ELSE ClearQueue(t, queues[t])]

\* callbackRegistry of a new EventHandler
EmptyRegistry == [t \in EventTypeSet |-> <<>>]

\* registerEventCallback: push
RegisterEventCallback(registry, type, callback) ==
  [registry EXCEPT ![type] = Append(@, callback)]

\* Array.prototype.indexOf, counted from 0: -1 when the callback is absent
IndexOf(list, callback) ==
  IF \A i \in 1..Len(list) : list[i] # callback THEN -1
  ELSE (CHOOSE i \in 1..Len(list) :
          /\ list[i] = callback
          /\ \A j \in 1..(i - 1) : list[j] # callback) - 1

\* Array.prototype.splice(start, 1): a negative start counts from the end of
\* the array
SpliceOne(list, start) ==
  LET from == IF start < 0 THEN (IF Len(list) + start < 0 THEN 0
                                 ELSE Len(list) + start)
              ELSE (IF start > Len(list) THEN Len(list) ELSE start)
  IN RemoveAt(list, from)

\* unregisterEventCallback: splice(indexOf(callback), 1)
UnregisterEventCallback(registry, type, callback) ==
  [registry EXCEPT ![type] = SpliceOne(@, IndexOf(@, callback))]

\* an event payload: n tells the payload objects apart, echo marks a payload
\* that a callback queued in answer to another one
Payload(type, button, key, n) ==
  [type |-> type, button |-> button, key |-> key, n |-> n, echo |-> FALSE]

NoPayload == Payload("", -1, "", 0)

Echo(payload, n) == [payload EXCEPT !.n = n, !.echo = TRUE]

\* callback(payload).  The callbacks "f" and "g" only look at the payload;
\* "requeue" answers a payload that is not itself an answer by queueing
\* another event of the same type.  st is the EventHandler while dispatchQueue
\* runs, with the record of the invocations made
Invoke(st, type, callback, payload) ==
  LET logged == [st EXCEPT !.invocations =
                    Append(@, [type |-> type, callback |-> callback,
                               payload |-> payload])]
      answer == Echo(payload, st.serial + 1)
      queued == QueueEvent(st.queues, st.callback, st.paused, payload.type,
                           answer)
  IN IF callback = "requeue" /\ ~payload.echo
       THEN [logged EXCEPT
               !.queues = queued,
               !.serial = @ + 1,
               !.enqueued = IF queued = st.queues THEN @ ELSE @ \cup {answer}]
       ELSE logged

\* queuedPayloads.forEach delivering the newest payload first
RECURSIVE DeliverPayloadsNewestFirst(_, _, _, _, _)
DeliverPayloadsNewestFirst(st, type, callback, i, n) ==
  IF i > n THEN st
  ELSE DeliverPayloadsNewestFirst(
         Invoke(st, type, callback, st.queues[type][n + 1 - i]), type,
         callback, i + 1, n)

\* queuedPayloads.forEach((payload) => callback(payload)): forEach visits
\* the n elements the array has when it is called, not the ones a callback
\* appends
RECURSIVE DeliverPayloads(_, _, _, _, _)
DeliverPayloads(st, type, callback, i, n) ==
  IF i > n THEN st
  ELSE DeliverPayloads(Invoke(st, type, callback, st.queues[type][i]), type,
                       callback, i + 1, n)

\* registeredCallbacks.forEach((callback) => queuedPayloads.forEach(...))
RECURSIVE DeliverCallbacks(_, _, _, _)
DeliverCallbacks(st, type, callbacks, j) ==
  IF j > Len(callbacks) THEN st
  ELSE DeliverCallbacks(
         DeliverPayloads(st, type, callbacks[j], 1, Len(st.queues[type])),
         type, callbacks, j + 1)

\* for (const type in this.queuedEventPayloads): deliver, then clear
RECURSIVE DispatchTypes(_, _, _)
DispatchTypes(st, registry, k) ==
  IF k > Len(EventTypes) THEN st
  ELSE \* one evaluation of the delivery per type
       LET type == EventTypes[k]
           delivered == DeliverCallbacks(st, type, registry[type], 1)
       IN DispatchTypes(
            [delivered EXCEPT !.queues[type] = ClearQueue(type, @)],
            registry, k + 1)

\* dispatchQueue with the registered callbacks, none of which throws
DispatchQueueCalling(queues, registry, callback, paused, serial) ==
  DispatchTypes([queues |-> queues, callback |-> callback, paused |-> paused,
                 serial |-> serial, invocations |-> <<>>, enqueued |-> {}],
                registry, 1)

\* no call of the EventHandler has been made yet, and no button or key has
\* been released
NoCalls ==
  [inputs |-> 0, serial |-> 0, frames |-> 0, registry |-> 0, released |-> {}]

\* the buttons and keys, each as <<button, key>>, whose latest listener call
\* was for a mouse-up or key-up, after the listener of the event fires
ReleasedAfter(released, event) ==
  IF event[1] \in {"onmouseup", "onkeyup"}
    THEN released \cup {<<event[2], event[3]>>}
  ELSE IF event[1] \in {"onmousedown", "onkeydown"}
    THEN released \ {<<event[2], event[3]>>}
  ELSE released

NoCall ==
  [op |-> "none", type |-> "", payload |-> NoPayload, callback |-> "",
   running |-> FALSE, gateOpen |-> FALSE, before |-> EmptyQueues, registryBefore |-> EmptyRegistry,
   invocations |-> <<>>, enqueued |-> {}, tick |-> 0,
   invocationsInTicks |-> <<>>, enqueuedInTicks |-> {}]

----------------------------------------------------------------------------
(* Actor *)

\* a number: whole + tiny * 10^-20.  The numbers of the model are whole
\* numbers and numbers of magnitude below 10^-15
Number(whole, tiny) == [whole |-> whole, tiny |-> tiny]

\* Number.EPSILON = 2^-52 lies between 22204 * 10^-20 and 22205 * 10^-20
EpsilonTiny == 22204

\* x < Number.EPSILON, without Math.abs
BelowEpsilonSigned(x) ==
  x.whole < 0 \/ (x.whole = 0 /\ x.tiny <= EpsilonTiny)

\* Math.abs(x) < Number.EPSILON
BelowEpsilon(x) ==
  x.whole = 0 /\ x.tiny <= EpsilonTiny /\ 0 - x.tiny <= EpsilonTiny

\* vec(x, y)
Vector(x, y) == [x |-> x, y |-> y]

ZeroNumber == Number(0, 0)

ZeroVector == Vector(ZeroNumber, ZeroNumber)

\* the vector operations return a new vector.  In the calls the model makes
\* no sum has a whole and a tiny part at once, so that no rounding occurs
Plus(a, b) == Number(a.whole + b.whole, a.tiny + b.tiny)

Minus(a, b) == Number(a.whole - b.whole, a.tiny - b.tiny)

add(v, w) == Vector(Plus(v.x, w.x), Plus(v.y, w.y))

sub(v, w) == Vector(Minus(v.x, w.x), Minus(v.y, w.y))

\* div(v, s) for a vector of whole numbers that s divides
div(v, s) == Vector(Number(v.x.whole \div s, 0), Number(v.y.whole \div s, 0))

\* mult(v, s) for s = half / 2 and a vector that can be halved exactly
mult(v, half) ==
  Vector(Number((v.x.whole * half) \div 2, (v.x.tiny * half) \div 2),
         Number((v.y.whole * half) \div 2, (v.y.tiny * half) \div 2))

CanBeHalved(v) ==
  /\ v.x.whole % 2 = 0 /\ v.x.tiny % 2 = 0
  /\ v.y.whole % 2 = 0 /\ v.y.tiny % 2 = 0

\* if (Math.abs(c) < Number.EPSILON) c = 0, for both components
Snapped(v) ==
  Vector(IF BelowEpsilon(v.x) THEN ZeroNumber ELSE v.x,
         IF BelowEpsilon(v.y) THEN ZeroNumber ELSE v.y)

\* the texture and animation identifiers the application uses
TextureIDs == {"t1", "t2"}

AnimationIDs == {"walk", "idle"}

\* textures[textureID] and animations[animationID] of an identifier that is
\* not a key of the object
NoTexture ==
  [present |-> FALSE, imageBitmap |-> "", spriteSize |-> [x |-> 0, y |-> 0],
   frameCount |-> 0]

NoAnimation == [present |-> FALSE, textureID |-> "", frames |-> <<>>]

\* textureManager.textures and the animationManager of the actor
Managers(a) ==
  [textures |-> a.textures, animations |-> a.animations,
   animationID |-> a.animationID, animationFrame |-> a.animationFrame,
   deltaSum |-> a.deltaSum]

\* a call on the actor begins: what it is, and the managers as it finds them
Entering(a, op) ==
  [a EXCEPT !.op = op, !.result = "", !.managersBefore = Managers(a)]

\* new Actor(ID, size, {pos, vel}): lastState.pos and pos are one object,
\* and so are lastState.vel and vel.  posShared and velShared tell whether
\* the two fields still refer to one object.  The other fields of the record
\* describe the last call: the values on entry (raw), after the snapping
\* (entry), and how often the call assigned lastState.pos and lastState.vel
NewActor(pos, vel) ==
  [pos |-> pos, vel |-> vel, lastPos |-> pos, lastVel |-> vel,
   posShared |-> TRUE, velShared |-> TRUE, doUpdate |-> TRUE, doDraw |-> TRUE,
   updates |-> 0, draws |-> 0,
   op |-> "none", acted |-> FALSE, callback |-> "none",
   rawPos |-> pos, rawVel |-> vel, entryPos |-> pos, entryVel |-> vel,
   lastStateBefore |-> Vector(pos, vel), lastStateWrites |-> 0,
   textures |-> [id \in TextureIDs |-> NoTexture],
   animations |-> [id \in AnimationIDs |-> NoAnimation],
   animationID |-> "", animationFrame |-> 0, deltaSum |-> 0,
   mutations |-> 0, result |-> "", id |-> "",
   managersBefore |->
     [textures |-> [id \in TextureIDs |-> NoTexture],
      animations |-> [id \in AnimationIDs |-> NoAnimation],
      animationID |-> "", animationFrame |-> 0, deltaSum |-> 0],
   run |-> [steady |-> FALSE, delta |-> 0, count |-> 0]]

\* the four snapping assignments: they change the vector objects in place,
\* hence also what lastState refers to while it shares them
SnapInPlace(a) ==
  [a EXCEPT !.pos = Snapped(@),
            !.vel = Snapped(@),
            !.lastPos = IF a.posShared THEN Snapped(a.pos) ELSE @,
            !.lastVel = IF a.velShared THEN Snapped(a.vel) ELSE @]

\* this.lastState.pos = this.pos; this.lastState.vel = this.vel
SnapshotLastState(a) ==
  [a EXCEPT !.lastPos = a.pos, !.lastVel = a.vel,
            !.posShared = TRUE, !.velShared = TRUE,
            !.lastStateWrites = @ + 1]

\* this.vel = add(this.vel, div(accel, timestep)): vel is a new vector
Integrate(a, accel, timestep) ==
  [a EXCEPT !.vel = add(@, div(accel, timestep)), !.velShared = FALSE]

\* this.update(timestep, env), for three update callbacks: none,
\* `this.pos.y += this.vel.y` and `this.pos = add(this.pos, this.vel)`
UserUpdate(a, callback) ==
  CASE callback = "movesInPlace" ->
         [a EXCEPT !.pos.y = Plus(@, a.vel.y),
                   !.lastPos.y = IF a.posShared THEN Plus(a.pos.y, a.vel.y)
                                 ELSE @]
    [] callback = "assigns" ->
         [a EXCEPT !.pos = add(@, a.vel), !.posShared = FALSE]
    [] OTHER -> a

\* updateAnimation without the wrap to the first frame: the index stays on
\* the last frame
AdvanceClamped(index, length) ==
  IF index + 1 < length THEN index + 1 ELSE index

\* (animationFrame + 1) % frames.length
Advance(index, length) == (index + 1) % length

\* updateAnimation(delta); after a frame change it reads the texture of the
\* animation, which throws when the actor no longer has that texture
UpdateAnimation(a, delta) ==
  IF a.animationID = "" THEN a
  ELSE LET animationState == a.animations[a.animationID]
           currentFrame == animationState.frames[a.animationFrame + 1]
           sum == a.deltaSum + delta
       IN IF sum >= currentFrame.duration
            THEN [a EXCEPT
                    !.deltaSum = sum - currentFrame.duration,
                    !.animationFrame =
                       Advance(@, Len(animationState.frames)),
                    !.result =
                       IF a.textures[animationState.textureID].present
                         THEN @ ELSE "throws"]
            ELSE [a EXCEPT !.deltaSum = sum]

\* if (this.update) this.update(timestep, env), unless updateAnimation threw
UpdateUnlessThrown(a, callback) ==
  IF a.result = "throws" THEN a ELSE UserUpdate(a, callback)

\* performUpdates
PerformUpdatesOn(a, accel, timestep, callback) ==
  LET entered == [Entering(a, "performUpdates") EXCEPT
                           !.callback = callback,
                           !.updates = @ + 1,
                           !.rawPos = a.pos, !.rawVel = a.vel,
                           !.lastStateBefore = Vector(a.lastPos, a.lastVel),
                           !.lastStateWrites = 0]
      snapped == SnapInPlace(entered)
  IN IF ~a.doUpdate
       THEN [entered EXCEPT !.acted = FALSE, !.entryPos = a.pos,
                            !.entryVel = a.vel]
       ELSE UpdateUnlessThrown(
              UpdateAnimation(
                Integrate(
                  SnapshotLastState(
                    [snapped EXCEPT !.acted = TRUE, !.entryPos = snapped.pos,
                                    !.entryVel = snapped.vel]),
                  accel, timestep),
                timestep),
              callback)

\* performDrawCalls: pos becomes a new vector, between lastState.pos and pos
PerformDrawCallsOn(a, half) ==
  LET entered == [Entering(a, "performDrawCalls") EXCEPT
                           !.callback = "none",
                           !.draws = @ + 1,
                           !.rawPos = a.pos, !.rawVel = a.vel,
                           !.entryPos = a.pos, !.entryVel = a.vel,
                           !.lastStateBefore = Vector(a.lastPos, a.lastVel),
                           !.lastStateWrites = 0]
  IN IF ~a.doDraw THEN [entered EXCEPT !.acted = FALSE]
     ELSE [entered EXCEPT
             !.acted = TRUE,
             !.pos = add(a.lastPos, mult(sub(a.pos, a.lastPos), half)),
             !.posShared = FALSE]

\* a call on the managers ends: what it returned ("true", "false") or that it
\* threw
Returning(a, id, result) ==
  [a EXCEPT !.id = id, !.result = result, !.mutations = @ + 1]

\* assert(condition, message) of util/asserts throws when the condition does
\* not hold
AssertionThrows(condition) == ~condition

\* addTexture stores the texture although the identifier is taken
AddTextureReplacing(a, textureID, imageBitmap, options) ==
  IF ~options.spriteSize.given
       \/ AssertionThrows(options.spriteSize.x > 0
                            /\ options.spriteSize.y > 0)
    THEN Returning(a, textureID, "throws")
    ELSE [Returning(a, textureID, "true") EXCEPT
            !.textures[textureID] =
               [present |-> TRUE, imageBitmap |-> imageBitmap,
                spriteSize |-> [x |-> options.spriteSize.x,
                                y |-> options.spriteSize.y],
                frameCount |-> options.frameCount]]

\* addTexture(textureID, imageBitmap, options); spriteSize.x of a spriteSize
\* left out throws as the failed assertion does
AddTexture(a, textureID, imageBitmap, options) ==
  IF a.textures[textureID].present THEN Returning(a, textureID, "false")
  ELSE AddTextureReplacing(a, textureID, imageBitmap, options)

\* removeTexture(textureID)
RemoveTexture(a, textureID) ==
  IF ~a.textures[textureID].present THEN Returning(a, textureID, "false")
  ELSE [Returning(a, textureID, "true") EXCEPT
          !.textures[textureID] = NoTexture]

\* Array.from({ length: frameCount }, (_, i) => ({ index: startIndex + i,
\* duration: frameDuration }))
FramesFrom(startIndex, frameCount, frameDuration) ==
  [i \in 1 .. frameCount |->
     [index |-> startIndex + i - 1, duration |-> frameDuration]]

\* frameCount after the default of addAnimationState is applied; the texture
\* is one the actor has
FrameCountOf(texture, options) ==
  IF options.frameCount = -1 /\ ~options.frames.given
    THEN texture.frameCount - options.startIndex
    ELSE options.frameCount

\* addAnimationState(animationID, textureID, options): every assertion, and
\* every read of a property of the texture that is not there, comes before the
\* one assignment to animations[animationID]
AddAnimationState(a, animationID, textureID, options) ==
  LET texture == a.textures[textureID]
      frameCount == FrameCountOf(texture, options)
  IN IF AssertionThrows(~a.animations[animationID].present)
       THEN Returning(a, animationID, "throws")
     ELSE IF ~texture.present
       \* texture.frameCount of undefined, in the default or in the second
       \* assertion, unless the first assertion fails before it
       THEN Returning(a, animationID, "throws")
     ELSE IF \/ AssertionThrows(frameCount > 0)
             \/ AssertionThrows(frameCount <= texture.frameCount)
             \/ AssertionThrows(options.startIndex >= 0)
             \/ AssertionThrows(options.startIndex < texture.frameCount)
             \/ AssertionThrows(options.frameDuration > 0)
       THEN Returning(a, animationID, "throws")
     ELSE IF options.frames.given
       THEN IF AssertionThrows(Len(options.frames.list) > 0)
              THEN Returning(a, animationID, "throws")
              ELSE [Returning(a, animationID, "true") EXCEPT
                      !.animations[animationID] =
                         [present |-> TRUE, textureID |-> textureID,
                          frames |-> options.frames.list]]
     ELSE [Returning(a, animationID, "true") EXCEPT
             !.animations[animationID] =
                [present |-> TRUE, textureID |-> textureID,
                 frames |-> FramesFrom(options.startIndex, frameCount,
                                       options.frameDuration)]]

\* removeAnimationState without its assertion
RemoveAnimationStateUnasserted(a, animationID) ==
  [Returning(a, animationID, "true") EXCEPT
     !.animationID = "", !.animationFrame = 0,
     !.animations[animationID] = NoAnimation]

\* removeAnimationState(animationID)
RemoveAnimationState(a, animationID) ==
  IF AssertionThrows(a.animations[animationID].present)
    THEN Returning(a, animationID, "throws")
    ELSE RemoveAnimationStateUnasserted(a, animationID)

\* setAnimationState(animationID)
SetAnimationState(a, animationID) ==
  IF AssertionThrows(a.animations[animationID].present)
    THEN Returning(a, animationID, "throws")
    ELSE [Returning(a, animationID, "true") EXCEPT
            !.animationFrame = IF a.animationID # "" THEN 0 ELSE @,
            !.animationID = animationID]

----------------------------------------------------------------------------
(* The parts the engine does not hold: a texture cache, the actors array of *)
(* the first engine, two convex shapes                                     *)

\* the identifiers textures are registered under, and an entry of the cache
CacheIDs == {"test", "test2"}

NotCached == [present |-> FALSE, bitmap |-> ""]

Cached(bitmap) == [present |-> TRUE, bitmap |-> bitmap]

\* new TextureHandler(): an empty cache; history is the calls made on it,
\* result what the last of them returned, or "throws"
NewTextureHandler ==
  [cache |-> [id \in CacheIDs |-> NotCached], history |-> <<>>,
   result |-> "", before |-> [id \in CacheIDs |-> NotCached]]

\* a call on the texture handler
Called(handler, op, id, bitmap) ==
  [handler EXCEPT
     !.history = Append(@, [op |-> op, id |-> id, bitmap |-> bitmap]),
     !.before = handler.cache]

\* registerTextureFromBitmap puts the bitmap in the cache whatever is there
RegisterTextureReplacing(handler, id, bitmap) ==
  [Called(handler, "register", id, bitmap) EXCEPT
     !.cache[id] = Cached(bitmap), !.result = bitmap]

\* registerTextureFromBitmap(id, bitmap): the bitmap in the cache under id
\* afterwards is returned
RegisterTextureFromBitmap(handler, id, bitmap) ==
  IF handler.cache[id].present
    THEN [Called(handler, "register", id, bitmap) EXCEPT
            !.result = handler.cache[id].bitmap]
    ELSE RegisterTextureReplacing(handler, id, bitmap)

\* unregisterTexture(id)
UnregisterTexture(handler, id) ==
  [Called(handler, "unregister", id, "") EXCEPT
     !.cache[id] = NotCached,
     !.result = IF handler.cache[id].present THEN "true" ELSE "false"]

\* getRegisteredTexture(id)
GetRegisteredTexture(handler, id) ==
  [Called(handler, "get", id, "") EXCEPT
     !.result = IF handler.cache[id].present THEN handler.cache[id].bitmap
                ELSE "throws"]

\* getTextureCache().size
CacheSize(cache) == Cardinality({id \in CacheIDs : cache[id].present})

\* this.actors = [] of the first engine; cycles counts the invocations of
\* its update function, drawn and updated are the actors the last one drew
\* and updated, in order
NoActors == [list |-> <<>>, cycles |-> 0, updated |-> <<>>, drawn |-> <<>>]

\* an actor as the application pushes it; flaggedAt is the number of update
\* cycles that had run when it was queued for disposal
NewLegacyActor(ID) ==
  [ID |-> ID, disposalQueued |-> FALSE, willDispose |-> FALSE,
   flaggedAt |-> 0]

\* the array actors.filter(actor => !actor.disposalQueued) returns
NotQueuedForDisposal(list) ==
  SelectSeq(list, LAMBDA a : ~a.disposalQueued)

\* the actors array after the filter statement of update: the statement
\* drops the array that filter returns, and filter leaves its receiver alone
ActorsAfterFilter(list) ==
  LET dropped == NotQueuedForDisposal(list)
  IN list

IDsOf(list) == [i \in 1 .. Len(list) |-> list[i].ID]

\* Convex shapes.  A normal is kept as the edge's perpendicular (x1, y1)
\* without the division by its length l: for an edge of positive length the
\* division scales the projections of both shapes on that axis by the same
\* 1 / l > 0, and the normal stored at n + i is the exact negation of the one
\* at i, so the comparisons of checkCollisionm come out the same.

\* getNormals that leaves out the negated normal of every edge
GetNormalsOneSided(points) ==
  [i \in 1 .. Len(points) |->
     LET crt == points[i]
         nxt == IF i + 1 <= Len(points) THEN points[i + 1] ELSE points[1]
     IN [x |-> nxt.y - crt.y, y |-> -(nxt.x - crt.x)]]

\* getNormals: normals[i] is the perpendicular of the edge from point i to
\* the next point, normals[n + i] its negation
GetNormals(points) ==
  GetNormalsOneSided(points)
    \o [i \in 1 .. Len(points) |->
         [x |-> -GetNormalsOneSided(points)[i].x,
          y |-> -GetNormalsOneSided(points)[i].y]]

\* new ConvexShape(game, points, posX, posY, ...)
ConvexShape(points, posX, posY) ==
  [points |-> points, x |-> posX, y |-> posY, normals |-> GetNormals(points)]

\* project(vector): the least and the greatest projection of the points
Project(me, vector) ==
  LET projections ==
        {(me.x + me.points[i].x) * vector.x + (me.y + me.points[i].y) * vector.y :
           i \in 1 .. Len(me.points)}
  IN [min |-> CHOOSE m \in projections : \A q \in projections : m <= q,
      max |-> CHOOSE m \in projections : \A q \in projections : m >= q]

\* the test checkCollisionm makes on one axis
AxisTest(p1, p2) ==
  \/ (p1.min <= p2.max) /\ (p1.max >= p2.min)
  \/ (p2.min >= p1.max) /\ (p2.max >= p1.min)

\* checkCollisionm(shape)
CheckCollisionm(me, shape) ==
  LET axes == me.normals \o shape.normals
  IN \A i \in 1 .. Len(axes) :
       AxisTest(Project(me, axes[i]), Project(shape, axes[i]))

\* no shape has been constructed
NoShapes ==
  [constructed |-> FALSE, a |-> ConvexShape(<<>>, 0, 0),
   b |-> ConvexShape(<<>>, 0, 0), calls |-> 0, checked |-> FALSE,
   me |-> "", result |-> FALSE]

----------------------------------------------------------------------------
(* Engine *)

\* the scenes registered before start: two that tick and one that does not
InitialScenes ==
  <<[ID |-> "s1", isTickEnabled |-> TRUE, isRenderEnabled |-> FALSE,
     isQueuedForDisposal |-> FALSE],
    [ID |-> "s2", isTickEnabled |-> FALSE, isRenderEnabled |-> TRUE,
     isQueuedForDisposal |-> FALSE],
    [ID |-> "s3", isTickEnabled |-> TRUE, isRenderEnabled |-> TRUE,
     isQueuedForDisposal |-> FALSE]>>

\* the engine constructs no actor and no shape: the specifications of the
\* engine, its scenes and its event registry have none
NotConstructed == <<>>

\* no Engine.update invocation has run yet
NoFrame ==
  [kind |-> "none", lagBefore |-> Zero, delta |-> Zero, ticks |-> 0,
   breaker |-> FALSE, pausedAtStart |-> FALSE, pausedAtExit |-> FALSE,
   tickedWhilePaused |-> FALSE, sceneTicks |-> 0,
   sceneTicksWhilePaused |-> 0, tickEvents |-> 0, dispatches |-> 0,
   rendered |-> "nothing",
   interpolationFactor |-> Quotient(Zero, targetTickDurationMilliseconds),
   passSteps |-> <<>>, tickPayloads |-> 0, pausedInTick |-> 0,
   renderSteps |-> <<>>, renderQueued |-> 0,
   at |-> 0, sincePrevious |-> -1, firstPreloaded |-> FALSE,
   unpausedLag |-> Zero, lagAtPause |-> Zero, startLiftedPause |-> FALSE,
   resumeCalled |-> FALSE, afterResume |-> FALSE]

Init ==
  /\ now = 0
  /\ frames = 0
  /\ rafPending = 0
  /\ rafRunning = 0
  /\ startCalls = 0
  /\ startThrows = 0
  /\ startsAwaiting = 0
  /\ isStarted = FALSE
  /\ isPreloaded = FALSE
  /\ isPaused = FALSE
  /\ lag = Zero
  /\ previousUpdateTimestamp = Zero
  /\ scenes = InitialScenes
  /\ enginePauseStateCallback = "default"
  /\ queuedEventPayloads = EmptyQueues
  /\ pc = "idle"
  /\ cycleUpdateCount = 0
  /\ frame = NoFrame
  /\ callbackRegistry = EmptyRegistry
  /\ calls = NoCalls
  /\ call = NoCall
  /\ actor = NotConstructed
  /\ textureCache = NewTextureHandler
  /\ actors = NoActors
  /\ shapes = NotConstructed

\* the update callbacks of one display frame run back to back: the host
\* starts the next frame, and application code calls start, pause and
\* resume, between display frames
BetweenFrames == pc = "idle" /\ rafRunning = 0

\* the host shows the next display frame: the callbacks requested so far are
\* the ones it will run, all with the same timestamp
AnimationFrame(d) ==
  /\ UNCHANGED <<textureCache, actors, shapes>>
  /\ BetweenFrames
  /\ UNCHANGED <<callbackRegistry, calls, call, actor>>
  /\ frames < MaxFrames
  /\ now' = now + d
  /\ frames' = frames + 1
  /\ rafRunning' = rafPending
  /\ rafPending' = 0
  /\ UNCHANGED <<startCalls, startThrows, startsAwaiting,
                 isStarted, isPreloaded, isPaused, lag,
                 previousUpdateTimestamp, scenes, enginePauseStateCallback,
                 queuedEventPayloads, pc, cycleUpdateCount, frame>>

\* assert(!this.isStarted, ...)
StartGuardPasses == ~isStarted

\* Engine.start up to its await: the guard, then the first animation-frame
\* request; a call the guard rejects throws and changes nothing
Start ==
  /\ UNCHANGED <<textureCache, actors, shapes>>
  /\ BetweenFrames
  /\ UNCHANGED <<callbackRegistry, calls, call, actor>>
  /\ startCalls < MaxStarts
  /\ startCalls' = startCalls + 1
  /\ IF StartGuardPasses
       THEN /\ rafPending' = rafPending + 1
            /\ startsAwaiting' = startsAwaiting + 1
            /\ UNCHANGED startThrows
       ELSE /\ startThrows' = startThrows + 1
            /\ UNCHANGED <<rafPending, startsAwaiting>>
  /\ UNCHANGED <<now, frames, rafRunning, isStarted, isPreloaded,
                 isPaused, lag, previousUpdateTimestamp, scenes,
                 enginePauseStateCallback, queuedEventPayloads, pc,
                 cycleUpdateCount, frame>>

\* a start that leaves the pause flag as it finds it
StartKeepsPauseState(paused) == paused

\* this.updatePauseState(false), the last statement of Engine.start
StartUnpauses(paused) == FALSE

\* Engine.start after its await: every scene has preloaded
StartResumeTracking(track) ==
  /\ UNCHANGED <<textureCache, actors, shapes>>
  /\ pc = "idle"
  /\ UNCHANGED <<callbackRegistry, calls, call, actor>>
  /\ startsAwaiting > 0
  /\ startsAwaiting' = startsAwaiting - 1
  /\ isPreloaded' = TRUE
  /\ isStarted' = TRUE
  /\ isPaused' = StartUnpauses(isPaused)
  /\ enginePauseStateCallback' = "engine"
  /\ frame' = [frame EXCEPT !.startLiftedPause = track /\ isPaused]
  /\ UNCHANGED <<now, frames, rafPending, rafRunning, startCalls,
                 startThrows, lag, previousUpdateTimestamp, scenes,
                 queuedEventPayloads, pc, cycleUpdateCount>>

StartResume == StartResumeTracking(FALSE)

\* the lag the engine would have had no update run while it was paused, kept
\* by the specifications that follow lag through a pause
Tracked(track, l) == IF track THEN l ELSE Zero

\* Engine.updatePauseState, reached through pause() and resume() called from
\* outside the update loop
UpdatePauseStateTracking(paused, track) ==
  /\ UNCHANGED <<textureCache, actors, shapes>>
  /\ BetweenFrames
  /\ UNCHANGED <<callbackRegistry, calls, call, actor>>
  /\ isPaused # paused
  /\ isPaused' = paused
  /\ enginePauseStateCallback' = "engine"
  /\ frame' = [frame EXCEPT
                  !.unpausedLag = IF paused THEN Tracked(track, lag) ELSE @,
                  !.resumeCalled = track /\ ~paused]
  /\ UNCHANGED <<now, frames, rafPending, rafRunning, startCalls,
                 startThrows, startsAwaiting, isStarted, isPreloaded, lag,
                 previousUpdateTimestamp, scenes, queuedEventPayloads, pc,
                 cycleUpdateCount>>

UpdatePauseState(paused) == UpdatePauseStateTracking(paused, FALSE)

Pause == UpdatePauseState(TRUE)

Resume == UpdatePauseState(FALSE)

\* an update that requested the next frame as its last statement would lose
\* the request whenever a callback throws
RequestsNextFrameLast == FALSE

\* this.updateID = requestAnimationFrame(this.update) is the first statement
\* of update, not its last
RequestsNextFrameFirst == TRUE

\* an update without the early return
PreloadGateMissing == FALSE

\* if (!this.isPreloaded) { this.render(0); return; }
PreloadGate == ~isPreloaded

\* this.lag = delta: a loop that forgets the time the last frame left over
AccumulateOverwrites(l, delta) == delta

\* this.lag += delta
Accumulate(l, delta) == Add(l, delta)

\* what Engine.render draws
Rendered(paused) ==
  IF ~isPreloaded THEN "preloadScreen"
  ELSE IF paused THEN "nothing"
  ELSE "scenes"

\* the identifiers of the scenes of ss with the flag, in the order of the map
ScenesWith(ss, flag) ==
  LET enabled == SelectSeq(ss, LAMBDA scene : scene[flag])
  IN [i \in 1 .. Len(enabled) |-> enabled[i].ID]

\* a render that draws whether or not the engine is paused
RenderStepsIgnoringPause(ss, paused) ==
  <<"setTransform", "scale">>
    \o (IF ~isPreloaded THEN <<"renderPreloadScreen">>
        ELSE <<"clearRect">> \o ScenesWith(ss, "isRenderEnabled")
               \o <<"queueEvent", "parameterGUI">>)

\* what Engine.render calls, in order; a scene stands for its render call
RenderSteps(ss, paused) ==
  IF paused /\ isPreloaded THEN <<"setTransform", "scale">>
  ELSE RenderStepsIgnoringPause(ss, paused)

\* the record of an Engine.update invocation that begins now: when it runs,
\* how long after the invocation before it, what lag was when the pause
\* in effect, or the one lifted since the last unpaused update, took effect,
\* and whether resume() lifted it
FrameBeginning ==
  [NoFrame EXCEPT !.at = now,
                  !.sincePrevious =
                     IF frame.kind = "none" THEN -1 ELSE now - frame.at,
                  !.unpausedLag = frame.unpausedLag,
                  !.resumeCalled = frame.resumeCalled]

\* Engine.update up to its while loop
UpdateBeginTracking(track) ==
  /\ UNCHANGED <<textureCache, actors, shapes>>
  /\ pc = "idle"
  /\ UNCHANGED <<callbackRegistry, calls, call, actor>>
  /\ rafRunning > 0
  /\ rafRunning' = rafRunning - 1
  /\ rafPending' = rafPending + (IF RequestsNextFrameFirst THEN 1 ELSE 0)
  /\ IF PreloadGate
       THEN /\ frame' = [FrameBeginning EXCEPT !.kind = "preload",
                                        !.pausedAtStart = isPaused,
                                        !.pausedAtExit = isPaused,
                                        !.rendered = Rendered(isPaused),
                                        !.renderSteps =
                                           RenderSteps(scenes, isPaused)]
            /\ UNCHANGED <<lag, previousUpdateTimestamp, pc, cycleUpdateCount>>
       ELSE \E delta \in {Sub(Ms(now), previousUpdateTimestamp)} :
              /\ previousUpdateTimestamp' = Ms(now)
              /\ lag' = Accumulate(lag, delta)
              /\ cycleUpdateCount' = 0
              /\ pc' = "loop"
              /\ frame' = [FrameBeginning EXCEPT
                             !.kind = "running",
                             !.lagBefore = lag,
                             !.delta = delta,
                             !.pausedAtStart = isPaused,
                             !.firstPreloaded = previousUpdateTimestamp = Zero,
                             !.unpausedLag =
                                IF isPaused THEN @
                                ELSE Tracked(track, Accumulate(lag, delta)),
                             !.lagAtPause = frame.unpausedLag,
                             !.resumeCalled = FALSE,
                             !.afterResume = frame.resumeCalled]
  /\ UNCHANGED <<now, frames, startCalls, startThrows,
                 startsAwaiting, isStarted, isPreloaded, isPaused, scenes,
                 enginePauseStateCallback, queuedEventPayloads>>

UpdateBegin == UpdateBeginTracking(FALSE)

\* a loop that runs while any time is left would overdraw the accumulator
LoopGuardWhileTimeLeft(l, paused) == Geq(l, Zero) /\ l # Zero /\ ~paused

\* a loop that does not test the pause flag
LoopGuardIgnoresPause(l, paused) == Geq(l, targetTickDurationMilliseconds)

\* this.lag >= this.targetTickDurationMilliseconds && !this.isPaused
LoopGuard(l, paused) == Geq(l, targetTickDurationMilliseconds) /\ ~paused

\* a breaker that never trips: the loop then runs for as long as lag lasts
BreakerNeverTrips(count) == FALSE

\* ++cycleUpdateCount >= this.maxUpdatesPerFrame
BreakerTrips(count) == count >= maxUpdatesPerFrame

TickEnabledScenes == {i \in 1..Len(scenes) : scenes[i].isTickEnabled}

\* what the scene ticks and event callbacks of one pass do to the engine:
\* nothing; the tick of the first ticking scene calls pause() or throws; or
\* a callback calls pause() or throws while dispatchQueue delivers the
\* ontick event
CallbackOutcomes ==
  IF cycleUpdateCount < CallbackWindow
    THEN {"none", "pauseInCallback", "callbackThrows"}
           \cup (IF TickEnabledScenes # {}
                   THEN {"pauseInSceneTick", "sceneTickThrows"} ELSE {})
    ELSE {"none"}

\* Scene.tick calls of one pass: every tick-enabled scene in order, up to
\* and including one whose tick throws
SceneTicksOfPass(outcome) ==
  IF outcome = "sceneTickThrows" THEN 1 ELSE Cardinality(TickEnabledScenes)

\* those of them made after pause() was called
SceneTicksAfterPause(outcome, paused) ==
  IF paused THEN SceneTicksOfPass(outcome)
  ELSE IF outcome = "pauseInSceneTick" THEN Cardinality(TickEnabledScenes) - 1
  ELSE 0

\* what one pass of the loop calls, in order, up to a call that throws; a
\* scene stands for its tick call
PassSteps(outcome) ==
  CASE outcome = "sceneTickThrows" ->
         <<"queueEvent">> \o SubSeq(ScenesWith(scenes, "isTickEnabled"), 1, 1)
    [] outcome = "callbackThrows" ->
         <<"queueEvent">> \o ScenesWith(scenes, "isTickEnabled")
           \o <<"dispatchQueue">>
    [] OTHER ->
         <<"queueEvent">> \o ScenesWith(scenes, "isTickEnabled")
           \o <<"dispatchQueue", "subtract">>

\* one pass of the while loop of Engine.update: queue ontick, tick the
\* scenes, dispatch the queue, subtract one tick from lag, test the breaker
TickIterationTracking(track) ==
  /\ UNCHANGED <<textureCache, actors, shapes>>
  /\ pc = "loop"
  /\ UNCHANGED <<callbackRegistry, calls, call, actor>>
  /\ LoopGuard(lag, isPaused)
  /\ \E outcome \in CallbackOutcomes :
     \E queued \in {QueueEvent(queuedEventPayloads, enginePauseStateCallback,
                               isPaused, "ontick",
                               [deltaTime |-> targetTickDurationMilliseconds])} :
     \E ticked \in {[frame EXCEPT
                       !.tickEvents = @ + 1,
                       !.sceneTicks = @ + SceneTicksOfPass(outcome),
                       !.sceneTicksWhilePaused =
                          @ + SceneTicksAfterPause(outcome, isPaused),
                       !.tickedWhilePaused = @ \/ isPaused,
                       !.pausedInTick =
                          IF outcome \in {"pauseInSceneTick", "pauseInCallback"}
                            THEN cycleUpdateCount + 1 ELSE @,
                       !.passSteps = PassSteps(outcome),
                       !.tickPayloads =
                          IF outcome = "sceneTickThrows" THEN @
                          ELSE Len(queued["ontick"])]} :
       CASE outcome = "sceneTickThrows" ->
              /\ queuedEventPayloads' = queued
              /\ frame' = [ticked EXCEPT !.kind = "aborted",
                                         !.pausedAtExit = isPaused]
              /\ pc' = "idle"
              /\ UNCHANGED <<lag, cycleUpdateCount, isPaused,
                             enginePauseStateCallback>>
         [] outcome = "callbackThrows" ->
              /\ queuedEventPayloads' = DispatchQueue(queued, TypeIndex["ontick"])
              /\ frame' = [ticked EXCEPT !.kind = "aborted",
                                         !.dispatches = @ + 1,
                                         !.pausedAtExit = isPaused]
              /\ pc' = "idle"
              /\ UNCHANGED <<lag, cycleUpdateCount, isPaused,
                             enginePauseStateCallback>>
         [] OTHER ->
              /\ IF outcome \in {"pauseInSceneTick", "pauseInCallback"}
                   THEN /\ isPaused' = TRUE
                        /\ enginePauseStateCallback' = "engine"
                   ELSE UNCHANGED <<isPaused, enginePauseStateCallback>>
              /\ queuedEventPayloads' = DispatchQueue(queued, 0)
              /\ cycleUpdateCount' = cycleUpdateCount + 1
              /\ IF BreakerTrips(cycleUpdateCount + 1)
                   THEN /\ lag' = Zero
                        /\ pc' = "break"
                        /\ frame' = [ticked EXCEPT
                                       !.dispatches = @ + 1,
                                       !.ticks = cycleUpdateCount + 1,
                                       !.breaker = TRUE,
                                       !.unpausedLag = Zero]
                   ELSE /\ lag' = Sub(lag, targetTickDurationMilliseconds)
                        /\ pc' = "loop"
                        /\ frame' = [ticked EXCEPT
                                       !.dispatches = @ + 1,
                                       !.ticks = cycleUpdateCount + 1,
                                       !.unpausedLag =
                                          Tracked(track,
                                            Sub(lag,
                                                targetTickDurationMilliseconds))]
  /\ UNCHANGED <<now, frames, rafPending, rafRunning, startCalls, startThrows,
                 startsAwaiting, isStarted, isPreloaded,
                 previousUpdateTimestamp, scenes>>

TickIteration == TickIterationTracking(FALSE)

\* removeScene returns nothing, so `isQueuedForDisposal && this.removeScene(scene)`
\* is never true
RemoveSceneResult == FALSE

\* the filter of the sweep at the end of Engine.update
Sweep(ss) ==
  SelectSeq(ss, LAMBDA s : ~(s.isQueuedForDisposal /\ RemoveSceneResult))

\* what Engine.render queues: an onrender event unless it returns early
Render(queues, paused, factor) ==
  IF paused \/ ~isPreloaded THEN queues
  ELSE QueueEvent(queues, enginePauseStateCallback, paused, "onrender",
                  [interpolationFactor |-> factor])

\* the rest of Engine.update once the loop is left, by its guard or by the
\* breaker's break: the render call, then the sweep
RenderAndSweep ==
  /\ UNCHANGED <<textureCache, actors, shapes>>
  /\ \/ pc = "break"
     \/ pc = "loop" /\ ~LoopGuard(lag, isPaused)
  /\ UNCHANGED <<callbackRegistry, calls, call, actor>>
  /\ \E factor \in {Quotient(lag, targetTickDurationMilliseconds)} :
       /\ queuedEventPayloads' = Render(queuedEventPayloads, isPaused, factor)
       /\ frame' = [frame EXCEPT
                      !.kind = "complete",
                      !.pausedAtExit = isPaused,
                      !.rendered = Rendered(isPaused),
                      !.interpolationFactor = factor,
                      !.renderSteps = RenderSteps(scenes, isPaused),
                      !.renderQueued =
                         Len(Render(queuedEventPayloads, isPaused,
                                    factor)["onrender"])
                           - Len(queuedEventPayloads["onrender"])]
  /\ scenes' = Sweep(scenes)
  /\ rafPending' = rafPending + (IF RequestsNextFrameFirst THEN 0 ELSE 1)
  /\ pc' = "idle"
  /\ UNCHANGED <<now, frames, rafRunning, startCalls, startThrows,
                 startsAwaiting, isStarted, isPreloaded, isPaused, lag,
                 previousUpdateTimestamp, enginePauseStateCallback,
                 cycleUpdateCount>>

Next ==
  \/ \E d \in FrameDeltas : AnimationFrame(d)
  \/ Start
  \/ StartResume
  \/ Pause
  \/ Resume
  \/ UpdateBegin
  \/ TickIteration
  \/ RenderAndSweep

Spec == Init /\ [][Next]_vars

----------------------------------------------------------------------------
(* The engine at a steady frame rate, with scenes queued for disposal *)

\* application code running inside an Engine.update invocation (a scene's
\* tick, an event callback) sets scene.isQueuedForDisposal = true
QueueSceneForDisposal(i) ==
  /\ UNCHANGED <<textureCache, actors, shapes>>
  /\ pc = "loop"
  /\ ~scenes[i].isQueuedForDisposal
  /\ scenes' = [scenes EXCEPT ![i].isQueuedForDisposal = TRUE]
  /\ UNCHANGED <<now, frames, rafPending, rafRunning, startCalls, startThrows,
                 startsAwaiting, isStarted, isPreloaded, isPaused, lag,
                 previousUpdateTimestamp, enginePauseStateCallback,
                 queuedEventPayloads, pc, cycleUpdateCount, frame,
                 callbackRegistry, calls, call, actor>>

NextScenes ==
  \/ AnimationFrame(50)
  \/ Start
  \/ StartResume
  \/ Pause
  \/ Resume
  \/ UpdateBegin
  \/ TickIteration
  \/ RenderAndSweep
  \/ \E i \in 1..Len(scenes) : QueueSceneForDisposal(i)

SpecScenes == Init /\ [][NextScenes]_vars

----------------------------------------------------------------------------
(* The engine paused and resumed, with the lag followed through the pause *)

PauseDeltas == {10, 50}

NextPause ==
  \/ \E d \in PauseDeltas : AnimationFrame(d)
  \/ Start
  \/ StartResumeTracking(TRUE)
  \/ \E paused \in BOOLEAN : UpdatePauseStateTracking(paused, TRUE)
  \/ UpdateBeginTracking(TRUE)
  \/ TickIterationTracking(TRUE)
  \/ RenderAndSweep

SpecPause == Init /\ [][NextPause]_vars

----------------------------------------------------------------------------
(* registerEventCallback and unregisterEventCallback *)

RegistryTypes == {"onmousedown", "ontick"}

RegistryCallbacks == {"f", "g", "h"}

RegisterCall(type, callback) ==
  /\ UNCHANGED <<textureCache, actors, shapes>>
  /\ calls.registry < MaxRegistryCalls
  /\ callbackRegistry' = RegisterEventCallback(callbackRegistry, type, callback)
  /\ calls' = [calls EXCEPT !.registry = @ + 1]
  /\ call' = [NoCall EXCEPT !.op = "registerEventCallback", !.type = type,
                            !.callback = callback,
                            !.registryBefore = callbackRegistry]
  /\ UNCHANGED <<now, frames, rafPending, rafRunning, startCalls, startThrows,
                 startsAwaiting, isStarted, isPreloaded, isPaused, lag,
                 previousUpdateTimestamp, scenes, enginePauseStateCallback,
                 queuedEventPayloads, pc, cycleUpdateCount, frame, actor>>

UnregisterCall(type, callback) ==
  /\ UNCHANGED <<textureCache, actors, shapes>>
  /\ calls.registry < MaxRegistryCalls
  /\ callbackRegistry' =
       UnregisterEventCallback(callbackRegistry, type, callback)
  /\ calls' = [calls EXCEPT !.registry = @ + 1]
  /\ call' = [NoCall EXCEPT !.op = "unregisterEventCallback", !.type = type,
                            !.callback = callback,
                            !.registryBefore = callbackRegistry]
  /\ UNCHANGED <<now, frames, rafPending, rafRunning, startCalls, startThrows,
                 startsAwaiting, isStarted, isPreloaded, isPaused, lag,
                 previousUpdateTimestamp, scenes, enginePauseStateCallback,
                 queuedEventPayloads, pc, cycleUpdateCount, frame, actor>>

NextRegistry ==
  \/ \E type \in RegistryTypes, callback \in RegistryCallbacks :
       RegisterCall(type, callback)
  \/ \E type \in RegistryTypes, callback \in RegistryCallbacks :
       UnregisterCall(type, callback)

SpecRegistry == Init /\ [][NextRegistry]_vars

----------------------------------------------------------------------------
(* The event handler next to a running engine *)

\* the registry after a sequence of registerEventCallback calls
RECURSIVE Registered(_)
Registered(registrations) ==
  IF registrations = <<>> THEN EmptyRegistry
  ELSE RegisterEventCallback(
         Registered(SubSeq(registrations, 1, Len(registrations) - 1)),
         registrations[Len(registrations)][1],
         registrations[Len(registrations)][2])

\* what the application has registered before the behaviour begins
RegistryChoices ==
  {Registered(<<>>),
   Registered(<<<<"onmousedown", "f">>, <<"onmousedown", "g">>,
                <<"whilemousedown", "f">>, <<"onmouseup", "g">>,
                <<"onmousemove", "f">>, <<"onmousemove", "f">>,
                <<"onkeydown", "f">>, <<"whilekeydown", "g">>,
                <<"onkeyup", "f">>, <<"ontick", "g">>>>),
   Registered(<<<<"onmousemove", "requeue">>, <<"onmousemove", "f">>>>),
   Registered(<<<<"ontick", "f">>, <<"ontick", "requeue">>>>)}

\* the events the attached listeners queue: event type, button and key
InputEvents ==
  {<<"onmousedown", 0, "">>, <<"onmousedown", 2, "">>, <<"onmouseup", 0, "">>,
   <<"onmousemove", 0, "">>, <<"onkeydown", -1, "a">>,
   <<"onkeydown", -1, "b">>, <<"onkeyup", -1, "a">>}

\* a started, preloaded engine between two frames; its event handler has the
\* initial pause-state callback or the engine's
InitEvents ==
  /\ now = 0
  /\ frames = 0
  /\ rafPending = 1
  /\ rafRunning = 0
  /\ startCalls = 1
  /\ startThrows = 0
  /\ startsAwaiting = 0
  /\ isStarted = TRUE
  /\ isPreloaded = TRUE
  /\ isPaused = FALSE
  /\ lag = Zero
  /\ previousUpdateTimestamp = Zero
  /\ scenes = InitialScenes
  /\ enginePauseStateCallback \in {"default", "engine"}
  /\ queuedEventPayloads = EmptyQueues
  /\ pc = "idle"
  /\ cycleUpdateCount = 0
  /\ frame = NoFrame
  /\ callbackRegistry \in RegistryChoices
  /\ calls = NoCalls
  /\ call = NoCall
  /\ actor = NewActor(ZeroVector, ZeroVector)
  /\ textureCache = NewTextureHandler
  /\ actors = NoActors
  /\ shapes = NoShapes

\* the events among them that the behaviours with dispatch cycles receive
DispatchedEvents ==
  {<<"onmousedown", 0, "">>, <<"onmouseup", 0, "">>, <<"onmousemove", 0, "">>,
   <<"onkeydown", -1, "a">>}

\* a listener of the canvas fires between two frames and calls queueEvent
QueueInput(event, most) ==
  /\ UNCHANGED <<textureCache, actors, shapes>>
  /\ pc = "idle"
  /\ calls.inputs < most
  /\ \E payload \in {Payload(event[1], event[2], event[3], calls.serial + 1)} :
       /\ queuedEventPayloads' =
            QueueEvent(queuedEventPayloads, enginePauseStateCallback,
                       isPaused, event[1], payload)
       /\ call' = [NoCall EXCEPT
                     !.op = "queueEvent", !.type = event[1],
                     !.payload = payload,
                     !.callback = enginePauseStateCallback,
                     !.running = isStarted /\ ~isPaused,
                     !.gateOpen = PauseStateCallbackResult(
                                    enginePauseStateCallback, isPaused),
                     !.before = queuedEventPayloads]
  /\ calls' = [calls EXCEPT !.inputs = @ + 1, !.serial = @ + 1,
                             !.released = ReleasedAfter(@, event)]
  /\ UNCHANGED <<now, frames, rafPending, rafRunning, startCalls, startThrows,
                 startsAwaiting, isStarted, isPreloaded, isPaused, lag,
                 previousUpdateTimestamp, scenes, enginePauseStateCallback,
                 pc, cycleUpdateCount, frame, callbackRegistry, actor>>

\* setEnginePauseStateCallback with the engine's predicate
SetEnginePauseStateCallback ==
  /\ UNCHANGED <<textureCache, actors, shapes>>
  /\ pc = "idle"
  /\ enginePauseStateCallback # "engine"
  /\ enginePauseStateCallback' = "engine"
  /\ UNCHANGED <<now, frames, rafPending, rafRunning, startCalls, startThrows,
                 startsAwaiting, isStarted, isPreloaded, isPaused, lag,
                 previousUpdateTimestamp, scenes, queuedEventPayloads, pc,
                 cycleUpdateCount, frame, callbackRegistry, calls, call,
                 actor>>

\* Engine.update up to its while loop; how long the loop runs is left open
FrameBegins ==
  /\ UNCHANGED <<textureCache, actors, shapes>>
  /\ pc = "idle"
  /\ calls.frames < MaxEventFrames
  /\ pc' = "loop"
  /\ cycleUpdateCount' = 0
  /\ calls' = [calls EXCEPT !.frames = @ + 1]
  /\ call' = [NoCall EXCEPT !.op = "update"]
  /\ UNCHANGED <<now, frames, rafPending, rafRunning, startCalls, startThrows,
                 startsAwaiting, isStarted, isPreloaded, isPaused, lag,
                 previousUpdateTimestamp, scenes, enginePauseStateCallback,
                 queuedEventPayloads, frame, callbackRegistry, actor>>

\* one iteration of the while loop: queueEvent("ontick"), then dispatchQueue
\* with the registered callbacks
TickDispatching ==
  /\ UNCHANGED <<textureCache, actors, shapes>>
  /\ pc = "loop"
  /\ ~isPaused
  /\ cycleUpdateCount < MaxTicks
  /\ \E ontick \in {Payload("ontick", -1, "", calls.serial + 1)} :
     \E queued \in {QueueEvent(queuedEventPayloads, enginePauseStateCallback,
                               isPaused, "ontick", ontick)} :
     \E done \in {DispatchQueueCalling(queued, callbackRegistry,
                                       enginePauseStateCallback, isPaused,
                                       calls.serial + 1)} :
       /\ queuedEventPayloads' = done.queues
       /\ calls' = [calls EXCEPT !.serial = done.serial]
       /\ call' = [call EXCEPT
                     !.op = "dispatchQueue",
                     !.before = queued,
                     !.registryBefore = callbackRegistry,
                     !.invocations = done.invocations,
                     !.enqueued = done.enqueued,
                     !.tick = cycleUpdateCount + 1,
                     !.invocationsInTicks = @ \o done.invocations,
                     !.enqueuedInTicks =
                        @ \cup done.enqueued
                          \cup (IF queued = queuedEventPayloads THEN {}
                                ELSE {ontick})]
  /\ cycleUpdateCount' = cycleUpdateCount + 1
  /\ UNCHANGED <<now, frames, rafPending, rafRunning, startCalls, startThrows,
                 startsAwaiting, isStarted, isPreloaded, isPaused, lag,
                 previousUpdateTimestamp, scenes, enginePauseStateCallback,
                 pc, frame, callbackRegistry, actor>>

\* the loop is left: the render call, then the sweep.  call.before is the
\* queues as the render call finds them
RenderAfterTicks ==
  /\ UNCHANGED <<textureCache, actors, shapes>>
  /\ pc = "loop"
  /\ queuedEventPayloads' =
       Render(queuedEventPayloads, isPaused,
              Quotient(lag, targetTickDurationMilliseconds))
  /\ scenes' = Sweep(scenes)
  /\ call' = [call EXCEPT !.op = "render", !.before = queuedEventPayloads,
                          !.registryBefore = callbackRegistry]
  /\ pc' = "idle"
  /\ UNCHANGED <<now, frames, rafPending, rafRunning, startCalls, startThrows,
                 startsAwaiting, isStarted, isPreloaded, isPaused, lag,
                 previousUpdateTimestamp, enginePauseStateCallback,
                 cycleUpdateCount, frame, callbackRegistry, calls, actor>>

\* the event queues without dispatch cycles
InitInput == InitEvents /\ callbackRegistry = EmptyRegistry

NextInput ==
  \/ \E event \in InputEvents : QueueInput(event, MaxEvents)
  \/ SetEnginePauseStateCallback
  \/ Pause
  \/ Resume

SpecInput == InitInput /\ [][NextInput]_vars

NextEvents ==
  \/ \E event \in DispatchedEvents : QueueInput(event, MaxDispatchedEvents)
  \/ SetEnginePauseStateCallback
  \/ Pause
  \/ Resume
  \/ FrameBegins
  \/ TickDispatching
  \/ RenderAfterTicks

SpecEvents == InitEvents /\ [][NextEvents]_vars

----------------------------------------------------------------------------
(* An actor *)

\* the positions and velocities actors are constructed with: x components
\* around machine epsilon, whole y components
PosChoices ==
  {Vector(Number(x[1], x[2]), Number(y, 0)) :
     x \in {<<0, 0>>, <<0, 1>>, <<0, -1>>, <<0, EpsilonTiny>>,
            <<0, EpsilonTiny + 1>>, <<0, -30000>>, <<3, 0>>, <<-3, 0>>},
     y \in {0, 4}}

VelChoices ==
  {Vector(Number(0, t), Number(y, 0)) : t \in {0, 1}, y \in {0, 2}}

\* env.properties.physics.accel, and the timestep
AccelChoices == {ZeroVector, Vector(ZeroNumber, Number(4, 0))}

Timestep == 2

UpdateCallbacks == {"none", "movesInPlace", "assigns"}

InitActor ==
  /\ now = 0
  /\ frames = 0
  /\ rafPending = 0
  /\ rafRunning = 0
  /\ startCalls = 0
  /\ startThrows = 0
  /\ startsAwaiting = 0
  /\ isStarted = FALSE
  /\ isPreloaded = FALSE
  /\ isPaused = FALSE
  /\ lag = Zero
  /\ previousUpdateTimestamp = Zero
  /\ scenes = InitialScenes
  /\ enginePauseStateCallback = "default"
  /\ queuedEventPayloads = EmptyQueues
  /\ pc = "idle"
  /\ cycleUpdateCount = 0
  /\ frame = NoFrame
  /\ callbackRegistry = EmptyRegistry
  /\ calls = NoCalls
  /\ call = NoCall
  /\ \E pos \in PosChoices, vel \in VelChoices : actor = NewActor(pos, vel)
  /\ textureCache = NewTextureHandler
  /\ actors = NoActors
  /\ shapes = NoShapes

PerformUpdates(accel, callback) ==
  /\ UNCHANGED <<textureCache, actors, shapes>>
  /\ actor.updates < MaxActorCalls
  /\ actor' = PerformUpdatesOn(actor, accel, Timestep, callback)
  /\ UNCHANGED <<now, frames, rafPending, rafRunning, startCalls, startThrows,
                 startsAwaiting, isStarted, isPreloaded, isPaused, lag,
                 previousUpdateTimestamp, scenes, enginePauseStateCallback,
                 queuedEventPayloads, pc, cycleUpdateCount, frame,
                 callbackRegistry, calls, call>>

\* interp is half / 2
PerformDrawCalls(half) ==
  /\ UNCHANGED <<textureCache, actors, shapes>>
  /\ actor.draws < MaxActorCalls
  /\ half = 1 => CanBeHalved(sub(actor.pos, actor.lastPos))
  /\ actor' = PerformDrawCallsOn(actor, half)
  /\ UNCHANGED <<now, frames, rafPending, rafRunning, startCalls, startThrows,
                 startsAwaiting, isStarted, isPreloaded, isPaused, lag,
                 previousUpdateTimestamp, scenes, enginePauseStateCallback,
                 queuedEventPayloads, pc, cycleUpdateCount, frame,
                 callbackRegistry, calls, call>>

\* application code assigns actor.doUpdate
SetDoUpdate(enabled) ==
  /\ UNCHANGED <<textureCache, actors, shapes>>
  /\ actor.doUpdate # enabled
  /\ actor' = [actor EXCEPT !.doUpdate = enabled]
  /\ UNCHANGED <<now, frames, rafPending, rafRunning, startCalls, startThrows,
                 startsAwaiting, isStarted, isPreloaded, isPaused, lag,
                 previousUpdateTimestamp, scenes, enginePauseStateCallback,
                 queuedEventPayloads, pc, cycleUpdateCount, frame,
                 callbackRegistry, calls, call>>

\* application code assigns actor.doDraw
SetDoDraw(enabled) ==
  /\ UNCHANGED <<textureCache, actors, shapes>>
  /\ actor.doDraw # enabled
  /\ actor' = [actor EXCEPT !.doDraw = enabled]
  /\ UNCHANGED <<now, frames, rafPending, rafRunning, startCalls, startThrows,
                 startsAwaiting, isStarted, isPreloaded, isPaused, lag,
                 previousUpdateTimestamp, scenes, enginePauseStateCallback,
                 queuedEventPayloads, pc, cycleUpdateCount, frame,
                 callbackRegistry, calls, call>>

NextActor ==
  \/ \E accel \in AccelChoices, callback \in UpdateCallbacks :
       PerformUpdates(accel, callback)
  \/ \E half \in {0, 1} : PerformDrawCalls(half)
  \/ \E enabled \in BOOLEAN : SetDoUpdate(enabled)
  \/ \E enabled \in BOOLEAN : SetDoDraw(enabled)

SpecActor == InitActor /\ [][NextActor]_vars

----------------------------------------------------------------------------
(* The textures and animation states of an actor *)

\* frames of the sprite sheets, and the frame duration the application gives
TextureFrameCount == 3

FrameDuration == 100

\* the timesteps performUpdates is called with: below, at and above the
\* frame duration
AnimationDeltas == {40, 100, 250}

Bitmaps == {"b1", "b2"}

\* options of addTexture: a positive spriteSize, and one that is not
TextureOptionChoices ==
  {[frameCount |-> TextureFrameCount,
    spriteSize |-> [given |-> TRUE, x |-> x, y |-> 16]] : x \in {16, 0}}

NoFrames == [given |-> FALSE, list |-> <<>>]

\* options of addAnimationState: the whole texture, a part of it, each
\* parameter out of range, and frames given one by one
AnimationOptionChoices ==
  {[frameCount |-> c[1], startIndex |-> c[2], frameDuration |-> c[3],
    frames |-> NoFrames] :
     c \in {<<-1, 0, FrameDuration>>, <<2, 1, FrameDuration>>,
            <<0, 0, FrameDuration>>,
            <<TextureFrameCount + 1, 0, FrameDuration>>,
            <<1, -1, FrameDuration>>,
            <<1, TextureFrameCount, FrameDuration>>, <<1, 0, 0>>}}
  \cup
  {[frameCount |-> 2, startIndex |-> 0, frameDuration |-> FrameDuration,
    frames |-> [given |-> TRUE, list |-> list]] :
     list \in {<<>>, FramesFrom(0, 2, FrameDuration)}}

InitAnimation ==
  /\ InitActor
  /\ actor = NewActor(ZeroVector, ZeroVector)

OnlyTheActorChanges ==
  UNCHANGED <<now, frames, rafPending, rafRunning, startCalls, startThrows,
              startsAwaiting, isStarted, isPreloaded, isPaused, lag,
              previousUpdateTimestamp, scenes, enginePauseStateCallback,
              queuedEventPayloads, pc, cycleUpdateCount, frame,
              callbackRegistry, calls, call, textureCache, actors, shapes>>

\* the run of equal timesteps since the animation was set at frame 0 with
\* deltaSum 0, after one more performUpdates
RunAfterUpdate(a, delta) ==
  IF a.run.steady /\ (a.run.count = 0 \/ a.run.delta = delta)
    THEN [steady |-> TRUE, delta |-> delta, count |-> a.run.count + 1]
    ELSE [steady |-> FALSE, delta |-> 0, count |-> 0]

\* ... and after a call that returned: removeAnimationState ends it,
\* setAnimationState begins one when it leaves frame 0 and deltaSum 0
RunAfterCall(before, after) ==
  IF after.result # "true" THEN before.run
  ELSE IF after.op = "setAnimationState"
    THEN [steady |-> after.animationFrame = 0 /\ after.deltaSum = 0,
          delta |-> 0, count |-> 0]
  ELSE IF after.op = "removeAnimationState"
    THEN [steady |-> FALSE, delta |-> 0, count |-> 0]
  ELSE before.run

AddTextureCall(textureID, imageBitmap, options, most) ==
  /\ actor.mutations < most
  /\ \E after \in {AddTexture(Entering(actor, "addTexture"), textureID,
                               imageBitmap, options)} :
       actor' = [after EXCEPT !.run = RunAfterCall(actor, after)]
  /\ OnlyTheActorChanges

RemoveTextureCall(textureID, most) ==
  /\ actor.mutations < most
  /\ \E after \in {RemoveTexture(Entering(actor, "removeTexture"),
                                  textureID)} :
       actor' = [after EXCEPT !.run = RunAfterCall(actor, after)]
  /\ OnlyTheActorChanges

AddAnimationStateCall(animationID, textureID, options, most) ==
  /\ actor.mutations < most
  /\ \E after \in {AddAnimationState(Entering(actor, "addAnimationState"),
                                      animationID, textureID, options)} :
       actor' = [after EXCEPT !.run = RunAfterCall(actor, after)]
  /\ OnlyTheActorChanges

RemoveAnimationStateCall(animationID, most) ==
  /\ actor.mutations < most
  /\ \E after \in {RemoveAnimationState(
                       Entering(actor, "removeAnimationState"),
                       animationID)} :
       actor' = [after EXCEPT !.run = RunAfterCall(actor, after)]
  /\ OnlyTheActorChanges

SetAnimationStateCall(animationID, most) ==
  /\ actor.mutations < most
  /\ \E after \in {SetAnimationState(Entering(actor, "setAnimationState"),
                                      animationID)} :
       actor' = [after EXCEPT !.run = RunAfterCall(actor, after)]
  /\ OnlyTheActorChanges

\* the scene calls performUpdates(timestep, env) on an actor at rest
AnimatedUpdate(delta, most) ==
  /\ actor.updates < most
  /\ actor' = [PerformUpdatesOn(actor, ZeroVector, delta, "none") EXCEPT
                 !.run = RunAfterUpdate(actor, delta)]
  /\ OnlyTheActorChanges

NextAnimation ==
  \/ \E textureID \in TextureIDs, imageBitmap \in Bitmaps,
        options \in TextureOptionChoices :
       AddTextureCall(textureID, imageBitmap, options, MaxAnimationCalls)
  \/ \E textureID \in TextureIDs :
       RemoveTextureCall(textureID, MaxAnimationCalls)
  \/ \E animationID \in AnimationIDs, textureID \in TextureIDs,
        options \in AnimationOptionChoices :
       AddAnimationStateCall(animationID, textureID, options,
                             MaxAnimationCalls)
  \/ \E animationID \in AnimationIDs :
       RemoveAnimationStateCall(animationID, MaxAnimationCalls)
  \/ \E animationID \in AnimationIDs :
       SetAnimationStateCall(animationID, MaxAnimationCalls)
  \/ \E delta \in AnimationDeltas :
       AnimatedUpdate(delta, MaxAnimationUpdates)

SpecAnimation == InitAnimation /\ [][NextAnimation]_vars

\* an actor with one sprite sheet, whose animation states are added, set and
\* removed, and which is updated by one frame duration at a time
NextAnimationStates ==
  \/ \E options \in {o \in TextureOptionChoices : o.spriteSize.x > 0} :
       AddTextureCall("t1", "b1", options, MaxStateCalls)
  \/ RemoveTextureCall("t1", MaxStateCalls)
  \/ \E animationID \in AnimationIDs,
        options \in {o \in AnimationOptionChoices :
                       o.frameCount = -1 /\ ~o.frames.given} :
       AddAnimationStateCall(animationID, "t1", options, MaxStateCalls)
  \/ \E animationID \in AnimationIDs :
       RemoveAnimationStateCall(animationID, MaxStateCalls)
  \/ \E animationID \in AnimationIDs :
       SetAnimationStateCall(animationID, MaxStateCalls)
  \/ AnimatedUpdate(FrameDuration, MaxStateUpdates)

SpecAnimationStates == InitAnimation /\ [][NextAnimationStates]_vars

----------------------------------------------------------------------------
(* The actors array of the first engine *)

ActorIDs == {"a1", "a2", "a3"}

OnlyTheActorsChange ==
  UNCHANGED <<now, frames, rafPending, rafRunning, startCalls, startThrows,
              startsAwaiting, isStarted, isPreloaded, isPaused, lag,
              previousUpdateTimestamp, scenes, enginePauseStateCallback,
              queuedEventPayloads, pc, cycleUpdateCount, frame,
              callbackRegistry, calls, call, actor, textureCache, shapes>>

\* the application pushes an actor onto engine.actors
PushActor(ID) ==
  /\ \A i \in 1 .. Len(actors.list) : actors.list[i].ID # ID
  /\ actors' = [actors EXCEPT !.list = Append(@, NewLegacyActor(ID))]
  /\ OnlyTheActorsChange

\* the application sets actor.disposalQueued = true between two cycles
QueueActorForDisposal(i) ==
  /\ ~actors.list[i].disposalQueued
  /\ actors' = [actors EXCEPT !.list[i].disposalQueued = TRUE,
                              !.list[i].flaggedAt = actors.cycles]
  /\ OnlyTheActorsChange

\* the application sets actor.willDispose = true, the flag of Actor.ts
SetWillDispose(i) ==
  /\ ~actors.list[i].willDispose
  /\ actors' = [actors EXCEPT !.list[i].willDispose = TRUE]
  /\ OnlyTheActorsChange

\* update(timestamp) of the first engine, with the names it uses (ctx,
\* actors, environment) bound to the engine's fields: draw every actor,
\* update every actor, filter, request the next frame.  The update callbacks
\* of the actors in queueing set their own disposalQueued.
UpdateCycle(queueing) ==
  /\ actors.cycles < MaxCycles
  /\ \A i \in queueing : ~actors.list[i].disposalQueued
  /\ \E updated \in
         {[i \in 1 .. Len(actors.list) |->
             IF i \in queueing
               THEN [actors.list[i] EXCEPT !.disposalQueued = TRUE,
                                           !.flaggedAt = actors.cycles]
               ELSE actors.list[i]]} :
       actors' = [list |-> ActorsAfterFilter(updated),
                  cycles |-> actors.cycles + 1,
                  drawn |-> IDsOf(actors.list),
                  updated |-> IDsOf(actors.list)]
  /\ OnlyTheActorsChange

NextActors ==
  \/ \E ID \in ActorIDs : PushActor(ID)
  \/ \E i \in 1 .. Len(actors.list) : QueueActorForDisposal(i)
  \/ \E i \in 1 .. Len(actors.list) : SetWillDispose(i)
  \/ \E queueing \in SUBSET (1 .. Len(actors.list)) : UpdateCycle(queueing)

SpecActors == InitAnimation /\ [][NextActors]_vars

----------------------------------------------------------------------------
(* Two convex shapes *)

Point(x, y) == [x |-> x, y |-> y]

\* the point lists shapes are constructed from: a triangle, a square, a
\* sliver
PointChoices ==
  {<<Point(0, 0), Point(2, 0), Point(0, 2)>>,
   <<Point(0, 0), Point(2, 0), Point(2, 2), Point(0, 2)>>,
   <<Point(0, 0), Point(3, 1)>>}

\* the positions shapes are constructed at and moved to
ShapePositions == {<<0, 0>>, <<1, 1>>, <<2, 0>>, <<3, 0>>, <<-3, 2>>, <<2, 2>>}

OnlyTheShapesChange ==
  UNCHANGED <<now, frames, rafPending, rafRunning, startCalls, startThrows,
              startsAwaiting, isStarted, isPreloaded, isPaused, lag,
              previousUpdateTimestamp, scenes, enginePauseStateCallback,
              queuedEventPayloads, pc, cycleUpdateCount, frame,
              callbackRegistry, calls, call, actor, textureCache, actors>>

\* the application constructs two shapes
ConstructShapes(pointsA, posA, pointsB, posB) ==
  /\ ~shapes.constructed
  /\ shapes' = [NoShapes EXCEPT
                  !.constructed = TRUE,
                  !.a = ConvexShape(pointsA, posA[1], posA[2]),
                  !.b = ConvexShape(pointsB, posB[1], posB[2])]
  /\ OnlyTheShapesChange

\* shape.move(x, y)
Move(which, x, y) ==
  /\ shapes.constructed
  /\ shapes.calls < MaxShapeCalls
  /\ shapes' = [shapes EXCEPT ![which].x = x, ![which].y = y,
                              !.calls = @ + 1, !.checked = FALSE]
  /\ OnlyTheShapesChange

\* me.checkCollisionm(the other shape)
CheckCollision(me) ==
  /\ shapes.constructed
  /\ shapes.calls < MaxShapeCalls
  /\ shapes' = [shapes EXCEPT
                  !.calls = @ + 1, !.checked = TRUE, !.me = me,
                  !.result =
                     IF me = "a" THEN CheckCollisionm(shapes.a, shapes.b)
                     ELSE CheckCollisionm(shapes.b, shapes.a)]
  /\ OnlyTheShapesChange

NextShapes ==
  \/ \E pointsA \in PointChoices, pointsB \in PointChoices,
        posA \in ShapePositions, posB \in ShapePositions :
       ConstructShapes(pointsA, posA, pointsB, posB)
  \/ \E which \in {"a", "b"}, pos \in ShapePositions :
       Move(which, pos[1], pos[2])
  \/ \E me \in {"a", "b"} : CheckCollision(me)

SpecShapes == InitAnimation /\ [][NextShapes]_vars

----------------------------------------------------------------------------
(* A texture handler *)

OnlyTheTextureCacheChanges ==
  UNCHANGED <<now, frames, rafPending, rafRunning, startCalls, startThrows,
              startsAwaiting, isStarted, isPreloaded, isPaused, lag,
              previousUpdateTimestamp, scenes, enginePauseStateCallback,
              queuedEventPayloads, pc, cycleUpdateCount, frame,
              callbackRegistry, calls, call, actor, actors, shapes>>

RegisterCacheCall(id, bitmap) ==
  /\ Len(textureCache.history) < MaxCacheCalls
  /\ textureCache' = RegisterTextureFromBitmap(textureCache, id, bitmap)
  /\ OnlyTheTextureCacheChanges

UnregisterCacheCall(id) ==
  /\ Len(textureCache.history) < MaxCacheCalls
  /\ textureCache' = UnregisterTexture(textureCache, id)
  /\ OnlyTheTextureCacheChanges

GetCacheCall(id) ==
  /\ Len(textureCache.history) < MaxCacheCalls
  /\ textureCache' = GetRegisteredTexture(textureCache, id)
  /\ OnlyTheTextureCacheChanges

NextTextures ==
  \/ \E id \in CacheIDs, bitmap \in Bitmaps : RegisterCacheCall(id, bitmap)
  \/ \E id \in CacheIDs : UnregisterCacheCall(id)
  \/ \E id \in CacheIDs : GetCacheCall(id)

SpecTextures == InitAnimation /\ [][NextTextures]_vars

----------------------------------------------------------------------------
(* Properties of the tick loop *)

\* the last Engine.update invocation ran to its end
FrameDone == pc = "idle" /\ frame.kind = "complete"

\* ... on an engine that was running when it began and when it ended
UnpausedFrameDone == FrameDone /\ ~frame.pausedAtStart /\ ~frame.pausedAtExit

\* lag_before + d of the last invocation, as a real number
FrameTime == ExactAdd(frame.lagBefore, frame.delta)

\* n tick durations, as a real number
Ticks(n) == Times(targetTickDurationMilliseconds, n)

\* 2^-32 ms: more than the rounding errors of one invocation add up to (one
\* sum and at most maxUpdatesPerFrame differences of values below 2^13, each
\* off by at most 2^-41)
RoundingTolerance == <<0, 0, 1, 0>>

\* |a - b| <= tol
Within(a, b, tol) == Geq(ExactAdd(a, tol), b) /\ Geq(ExactAdd(b, tol), a)

\* C1, as stated: on a preloaded engine that is running, with
\* n = floor((lag_before + d) / T), an invocation with n < maxUpdatesPerFrame
\* runs exactly n tick iterations and leaves lag = (lag_before + d) mod T;
\* one with n > maxUpdatesPerFrame runs exactly maxUpdatesPerFrame and
\* leaves lag = 0.
C1_TicksAndLagExact ==
  UnpausedFrameDone =>
    /\ Less(FrameTime, Ticks(maxUpdatesPerFrame)) =>
         /\ Geq(FrameTime, Ticks(frame.ticks))
         /\ Less(FrameTime, Ticks(frame.ticks + 1))
         /\ lag = ExactSub(FrameTime, Ticks(frame.ticks))
    /\ Geq(FrameTime, Ticks(maxUpdatesPerFrame + 1)) =>
         /\ frame.ticks = maxUpdatesPerFrame
         /\ lag = Zero

\* C1, as the code computes it: when lag_before + d is less than
\* maxUpdatesPerFrame tick durations, the invocation runs k tick iterations
\* and leaves a lag with 0 <= lag < T that is within 2^-32 ms of
\* lag_before + d - k * T (so k is floor((lag_before + d) / T), or one off
\* it when lag_before + d is that close to a multiple of T); when it is at
\* least maxUpdatesPerFrame + 1 tick durations, exactly maxUpdatesPerFrame
\* iterations run and lag is 0.
C1_TicksAndLagUpToRounding ==
  UnpausedFrameDone =>
    /\ Less(FrameTime, Ticks(maxUpdatesPerFrame)) =>
         /\ Within(ExactAdd(lag, Ticks(frame.ticks)), FrameTime,
                   RoundingTolerance)
         /\ Geq(lag, Zero)
         /\ Less(lag, targetTickDurationMilliseconds)
    /\ Geq(FrameTime, Ticks(maxUpdatesPerFrame + 1)) =>
         /\ frame.ticks = maxUpdatesPerFrame
         /\ lag = Zero

\* a 200 ms frame from lag 0: twelve iterations ran although 200 ms is less
\* than twelve tick durations
C1_TwelveTicksIn200Ms ==
  /\ UnpausedFrameDone
  /\ frame.lagBefore = Zero
  /\ frame.delta = Ms(200)
  /\ frame.ticks = 12
  /\ Less(FrameTime, Ticks(12))

\* C2: no Engine.update invocation runs more than maxUpdatesPerFrame tick
\* iterations, whatever the frame delta and the accumulated lag: once the
\* counter reaches maxUpdatesPerFrame the loop has been left.
C2_TickIterationsBounded ==
  /\ cycleUpdateCount <= maxUpdatesPerFrame
  /\ frame.ticks <= maxUpdatesPerFrame
  /\ pc = "loop" => cycleUpdateCount < maxUpdatesPerFrame

\* the loop was cut short with more than a tick of lag still to run
C2_LoopCutShort ==
  /\ pc = "break"
  /\ frame.ticks = maxUpdatesPerFrame
  /\ Geq(FrameTime, Ticks(maxUpdatesPerFrame + 1))

\* C3: when floor((lag_before + d) / T) is exactly maxUpdatesPerFrame, the
\* counter reaches maxUpdatesPerFrame on the iteration on which lag drops
\* below T, and the remaining lag is kept: lag_after = (lag_before + d) mod T
\* (here up to rounding).
C3_RemainderKeptAtExactCap ==
  (/\ UnpausedFrameDone
   /\ Geq(FrameTime, Ticks(maxUpdatesPerFrame))
   /\ Less(FrameTime, Ticks(maxUpdatesPerFrame + 1)))
    => Within(ExactAdd(lag, Ticks(maxUpdatesPerFrame)), FrameTime,
              RoundingTolerance)

\* C4: on every invocation in which the breaker does not fire, paused or
\* not, the interpolationFactor passed to render satisfies
\* 0 <= interpolationFactor < 1.
C4_InterpolationFactorInUnitInterval ==
  (FrameDone /\ ~frame.breaker) =>
    /\ Geq(frame.interpolationFactor.num, Zero)
    /\ Less(frame.interpolationFactor.num, frame.interpolationFactor.den)

\* C5: with non-decreasing frame timestamps lag is never negative, and it is
\* exactly 0 at the end of every invocation in which the breaker fired.
C5_LagNeverNegative ==
  /\ Geq(lag, Zero)
  /\ (FrameDone /\ frame.breaker) => lag = Zero

\* an invocation in which the breaker fired has ended
C5_BreakerFrameDone == FrameDone /\ frame.breaker /\ lag = Zero

\* C6: with T = 1000 / 60, lag_before = 0 and a frame delta of 50 ms, the
\* invocation runs exactly 2 tick iterations and leaves lag within 0.005 ms
\* of 16.67 ms, a little less than one tick duration.
C6_FiftyMsGivesTwoTicks ==
  (UnpausedFrameDone /\ frame.lagBefore = Zero /\ frame.delta = Ms(50)) =>
    /\ frame.ticks = 2
    /\ Geq(lag, <<16, 43582, 0, 0>>)
    /\ Less(lag, <<16, 44236, 0, 0>>)
    /\ Less(lag, targetTickDurationMilliseconds)

\* such a 50 ms frame has run
C6_FiftyMsFrameDone ==
  /\ UnpausedFrameDone
  /\ frame.lagBefore = Zero
  /\ frame.delta = Ms(50)
  /\ frame.ticks = 2

\* C7: of all the calls of start() at most one does not raise: a call made
\* after an earlier one raises, whether that one is still awaiting the
\* preload or has finished it.
C7_SecondStartRaises == startCalls - startThrows <= 1

\* C8: while isPreloaded is false no Engine.update invocation enters the
\* tick loop: no tick iteration, no Scene.tick, no ontick event, no
\* dispatch, lag unchanged; the invocation renders the preload screen only.
C8_NoTickBeforePreload ==
  ~isPreloaded =>
    /\ pc = "idle"
    /\ frame.kind \in {"none", "preload"}
    /\ frame.ticks = 0
    /\ frame.sceneTicks = 0
    /\ frame.tickEvents = 0
    /\ frame.dispatches = 0
    /\ queuedEventPayloads = EmptyQueues
    /\ lag = Zero
    /\ frame.kind = "preload" => frame.rendered = "preloadScreen"

\* an update ran before the preload completed, three ticks after the origin
C8_UpdateDuringPreload ==
  /\ ~isPreloaded
  /\ frame.kind = "preload"
  /\ now >= 50

\* C9, as stated: while the engine is paused update keeps being invoked and
\* requests the next frame, but Scene.tick is never invoked and no ontick
\* event is queued between pause() and the next resume().
C9_NoSceneTickWhilePaused ==
  /\ frame.sceneTicksWhilePaused = 0
  /\ ~frame.tickedWhilePaused
  /\ frame.pausedAtStart =>
       frame.ticks = 0 /\ frame.sceneTicks = 0 /\ frame.tickEvents = 0
  /\ (FrameDone /\ frame.pausedAtStart) => rafPending + rafRunning >= 1

\* C9, as the code behaves: while the engine is paused update keeps being
\* invoked and requests the next frame, but no tick iteration begins: an
\* invocation that starts paused queues no ontick event and ticks no scene.
\* The iteration in which pause() is called still runs to its end.
C9_NoIterationBeginsWhilePaused ==
  /\ ~frame.tickedWhilePaused
  /\ frame.pausedAtStart =>
       frame.ticks = 0 /\ frame.sceneTicks = 0 /\ frame.tickEvents = 0
  /\ (FrameDone /\ frame.pausedAtStart) => rafPending + rafRunning >= 1

\* a paused invocation with at least a tick of lag has ended without ticking
C9_PausedFrameDone ==
  /\ FrameDone
  /\ frame.pausedAtStart
  /\ Geq(lag, targetTickDurationMilliseconds)
  /\ frame.ticks = 0
  /\ rafPending >= 1

\* C10: every accepted start() begins a chain of update callbacks that never
\* ends: each chain always has a callback requested or about to run, and an
\* invocation has requested the next frame before it does anything else, so
\* also before a scene tick or event callback throws.
C10_ChainNeverEnds ==
  /\ rafPending + rafRunning = startCalls - startThrows
  /\ pc # "idle" => rafPending >= 1

\* an invocation ended by a throw, with the next frame already requested
C10_AbortedWithNextFrameRequested ==
  /\ pc = "idle"
  /\ frame.kind = "aborted"
  /\ rafPending >= 1

----------------------------------------------------------------------------
(* Properties of the event handler *)

\* the payloads of a queue
QueuedIn(queue) == {queue[i] : i \in 1..Len(queue)}

\* the last step was the render call that ends an Engine.update invocation
RenderReached == call.op = "render"

\* callback cb, registered for the payload's type, was invoked with the
\* payload during the tick iterations of the invocation
DeliveredInTicks(cb, payload) ==
  \E k \in 1..Len(call.invocationsInTicks) :
    /\ call.invocationsInTicks[k].callback = cb
    /\ call.invocationsInTicks[k].payload = payload

\* C11: every event enqueued during the tick iterations of a frame, by the
\* engine or by a callback running during dispatch, has been delivered to
\* each callback registered for its type before the frame's render call, and
\* is in no queue when render starts.
C11_EnqueuedInTicksDeliveredBeforeRender ==
  RenderReached =>
    \A payload \in call.enqueuedInTicks :
      /\ payload \notin QueuedIn(call.before[payload.type])
      /\ \A j \in 1..Len(callbackRegistry[payload.type]) :
           DeliveredInTicks(callbackRegistry[payload.type][j], payload)

----------------------------------------------------------------------------
(* Properties of the scene registry *)

\* C12: a scene whose isQueuedForDisposal became true during a frame is
\* absent from Engine.scenes after that frame's post-render sweep: once an
\* Engine.update invocation has run to its end, no scene of the registry is
\* flagged.
C12_FlaggedScenesSwept ==
  FrameDone => \A i \in 1..Len(scenes) : ~scenes[i].isQueuedForDisposal

----------------------------------------------------------------------------
(* Properties of the event queues *)

\* the last call of the event handler was queueEvent
QueueEventCalled == call.op = "queueEvent"

\* C13: queueEvent enqueues the payload whenever the engine is running, also
\* on a handler whose pause-state callback was never replaced, and leaves
\* every queue unchanged whenever the engine is paused.
C13_QueuedExactlyWhenRunning ==
  QueueEventCalled =>
    IF call.running
      THEN call.payload \in QueuedIn(queuedEventPayloads[call.type])
      ELSE queuedEventPayloads = call.before

----------------------------------------------------------------------------
(* Properties of the callback registry *)

\* a subscriber list without the first occurrence of cb; the list itself
\* when cb does not occur in it
WithoutFirstOccurrence(list, cb) ==
  IF \A i \in 1..Len(list) : list[i] # cb THEN list
  ELSE LET first == CHOOSE i \in 1..Len(list) :
                      /\ list[i] = cb
                      /\ \A j \in 1..(i - 1) : list[j] # cb
       IN [k \in 1..(Len(list) - 1) |->
             IF k < first THEN list[k] ELSE list[k + 1]]

\* C14: unregisterEventCallback(type, cb) removes exactly the first
\* occurrence of cb from that type's subscriber list and leaves every other
\* subscriber, and every other list, as it was; when cb is not in the list the
\* list is unchanged.
C14_FirstOccurrenceRemoved ==
  call.op = "unregisterEventCallback" =>
    callbackRegistry =
      [call.registryBefore EXCEPT
         ![call.type] = WithoutFirstOccurrence(@, call.callback)]

----------------------------------------------------------------------------
(* Properties of dispatchQueue *)

\* the last step was a tick iteration, which ends with a dispatchQueue call;
\* call.before is the queues, and call.registryBefore the registry, at the
\* beginning of that call
DispatchDone == call.op = "dispatchQueue"

\* each callback in turn with each payload in turn
ExpectedInvocations(type, callbacks, payloads) ==
  [k \in 1..(Len(callbacks) * Len(payloads)) |->
     [type |-> type,
      callback |-> callbacks[((k - 1) \div Len(payloads)) + 1],
      payload |-> payloads[((k - 1) % Len(payloads)) + 1]]]

\* the invocations the call made for a type with the payloads that were
\* queued for it when the call began
InvocationsOfQueued(type) ==
  SelectSeq(call.invocations,
            LAMBDA v : v.type = type /\ v.payload \in QueuedIn(call.before[type]))

\* C15: one dispatchQueue call invokes, for each event type, every callback
\* registered for the type with every payload queued for the type exactly
\* once, a callback registered k times k times, callbacks in registration
\* order and for each callback payloads in enqueue order; no callback
\* receives a payload of another type.
C15_EachCallbackEachPayloadInOrder ==
  DispatchDone =>
    /\ \A type \in EventTypeSet :
         InvocationsOfQueued(type) =
           ExpectedInvocations(type, call.registryBefore[type],
                               call.before[type])
    /\ \A k \in 1..Len(call.invocations) :
         call.invocations[k].payload.type = call.invocations[k].type

\* a dispatch with two payloads queued for a type that has one callback
\* registered twice
C15_TwoPayloadsTwoRegistrations ==
  /\ DispatchDone
  /\ Len(call.before["onmousemove"]) = 2
  /\ call.registryBefore["onmousemove"] = <<"f", "f">>
  /\ Len(InvocationsOfQueued("onmousemove")) = 4

LevelTriggered == {"whilemousedown", "whilekeydown"}

\* C16: when dispatchQueue returns, the queue of every event type other than
\* whilemousedown and whilekeydown is empty, however many payloads were
\* queued.
C16_QueuesEmptyAfterDispatch ==
  DispatchDone =>
    \A type \in EventTypeSet \ LevelTriggered :
      queuedEventPayloads[type] = <<>>

\* C17: dispatchQueue leaves the whilemousedown and whilekeydown queues as
\* they were, and delivers each of their entries to every callback registered
\* for the type on every dispatch cycle: dispatch alone never removes an
\* entry.
C17_LevelTriggeredEntriesPersist ==
  DispatchDone =>
    \A type \in LevelTriggered :
      /\ queuedEventPayloads[type] = call.before[type]
      /\ \A entry \in QueuedIn(call.before[type]) :
         \A j \in 1..Len(call.registryBefore[type]) :
         \E k \in 1..Len(call.invocations) :
           call.invocations[k] =
             [type |-> type, callback |-> call.registryBefore[type][j],
              payload |-> entry]

\* the second dispatch cycle of a frame delivers an entry for a button that
\* went down before the frame
C17_HeldButtonDeliveredAgain ==
  /\ DispatchDone
  /\ call.tick = 2
  /\ call.registryBefore["whilemousedown"] # <<>>
  /\ queuedEventPayloads["whilemousedown"] # <<>>
  /\ InvocationsOfQueued("whilemousedown") # <<>>

----------------------------------------------------------------------------
(* Properties of queueEvent *)

\* the buttons of the entries of a queue
Buttons(queue) == [i \in 1..Len(queue) |-> queue[i].button]

\* C18: a queueEvent call that passes the pause-state gate appends the
\* payload to the queue of its type.  For onmousedown it also appends one
\* whilemousedown entry for the button, whether or not one is queued already;
\* for onmouseup it removes every whilemousedown entry of the button and
\* leaves those of other buttons in place and in order.  The same holds for
\* onkeydown, onkeyup and whilekeydown with the key.  No other queue changes.
C18_DownAppendsUpRemovesMatching ==
  (QueueEventCalled /\ call.gateOpen) =>
    CASE call.type = "onmousedown" ->
           queuedEventPayloads =
             [call.before EXCEPT
                !["onmousedown"] = Append(@, call.payload),
                !["whilemousedown"] =
                   Append(@, [call.payload EXCEPT !.type = "whilemousedown"])]
      [] call.type = "onmouseup" ->
           queuedEventPayloads =
             [call.before EXCEPT
                !["onmouseup"] = Append(@, call.payload),
                !["whilemousedown"] =
                   SelectSeq(@, LAMBDA e : e.button # call.payload.button)]
      [] call.type = "onkeydown" ->
           queuedEventPayloads =
             [call.before EXCEPT
                !["onkeydown"] = Append(@, call.payload),
                !["whilekeydown"] =
                   Append(@, [call.payload EXCEPT !.type = "whilekeydown"])]
      [] call.type = "onkeyup" ->
           queuedEventPayloads =
             [call.before EXCEPT
                !["onkeyup"] = Append(@, call.payload),
                !["whilekeydown"] =
                   SelectSeq(@, LAMBDA e : e.key # call.payload.key)]
      [] OTHER ->
           queuedEventPayloads =
             [call.before EXCEPT ![call.type] = Append(@, call.payload)]

\* button 0 went down twice and button 2 once in between; the onmouseup for
\* button 0 leaves the entry of button 2
C18_UpAfterTwoDowns ==
  /\ QueueEventCalled
  /\ call.gateOpen
  /\ call.type = "onmouseup"
  /\ call.payload.button = 0
  /\ Buttons(call.before["whilemousedown"]) = <<0, 2, 0>>
  /\ Buttons(queuedEventPayloads["whilemousedown"]) = <<2>>

----------------------------------------------------------------------------
(* Properties of the actor *)

\* the last call on the actor was a performUpdates call that got past the
\* doUpdate test
UpdatePerformed == actor.op = "performUpdates" /\ actor.acted

\* C19: a performUpdates call on an update-enabled actor writes lastState
\* once, and on return lastState.pos and lastState.vel hold the values pos
\* and vel had on entry, after snapping; performDrawCalls leaves lastState
\* as it was.
C19_LastStateHoldsEntryValues ==
  /\ UpdatePerformed =>
       /\ actor.lastStateWrites = 1
       /\ actor.lastPos = actor.entryPos
       /\ actor.lastVel = actor.entryVel
  /\ actor.op = "performDrawCalls" =>
       /\ actor.lastStateWrites = 0
       /\ Vector(actor.lastPos, actor.lastVel) = actor.lastStateBefore

\* a number of magnitude below 2^-52
MagnitudeBelowEpsilon(x) ==
  x.whole = 0 /\ x.tiny \in (0 - EpsilonTiny)..EpsilonTiny

\* what the claim expects of a component after the call
SnappedOnReturn(before, after) ==
  IF MagnitudeBelowEpsilon(before) THEN after = ZeroNumber ELSE after = before

\* C20: for an update-enabled actor whose update callback does not touch
\* pos, a pos component of magnitude below machine epsilon on entry to
\* performUpdates is exactly 0 on return, and a component at or above epsilon
\* is as it was.
C20_SubEpsilonPosSnappedToZero ==
  (UpdatePerformed /\ actor.callback = "none") =>
    /\ SnappedOnReturn(actor.rawPos.x, actor.pos.x)
    /\ SnappedOnReturn(actor.rawPos.y, actor.pos.y)

\* pos.x = 1e-20 on entry, 0 on return
C20_TinyPosSnapped ==
  /\ UpdatePerformed
  /\ actor.callback = "none"
  /\ actor.rawPos.x = Number(0, 1)
  /\ actor.pos.x = ZeroNumber

\* C32: the first Engine.update invocation that passes the preload gate, when
\* an invocation ran before it, adds to lag the time elapsed since that
\* invocation; it therefore runs at most floor of that time over T tick
\* iterations, and trips the breaker only when that time is 240 ticks or more
C32_FirstDeltaIsSincePreviousFrame ==
  frame.firstPreloaded /\ frame.sincePrevious >= 0 =>
    /\ frame.delta = Ms(frame.sincePrevious)
    /\ Geq(ExactAdd(Ms(frame.sincePrevious), RoundingTolerance),
           Ticks(frame.ticks))
    /\ frame.breaker =>
         Geq(ExactAdd(Ms(frame.sincePrevious), RoundingTolerance),
             Ticks(maxUpdatesPerFrame))

\* C33: time that passes while the engine is paused is never simulated: the
\* first Engine.update invocation after resume() runs at most floor((lag when
\* the pause took effect + its own delta) / T) tick iterations, however long
\* the pause lasted
C33_PausedTimeIsNotSimulated ==
  frame.afterResume =>
    Geq(ExactAdd(ExactAdd(frame.lagAtPause, frame.delta), RoundingTolerance),
        Ticks(frame.ticks))

\* Engine.start resumes after its await and returns
StartCompletes == startsAwaiting' < startsAwaiting

\* a step that clears the pause flag
PauseLifted == isPaused /\ ~isPaused'

\* a pass of the loop of Engine.update begins: it queues its ontick event
TickIterationBegins == frame'.tickEvents = frame.tickEvents + 1

\* C34, as stated: a pause() call stays in effect until resume() is called;
\* the completion of start() never clears the pause flag.
C34_OnlyResumeLiftsPause ==
  [][PauseLifted => ~StartCompletes]_vars

\* C34: a pause() call stays in effect until resume() is called or start()
\* completes, and no tick iteration begins while it is in effect; start()
\* un-pauses when preload completes, so the engine is running when start()
\* finishes even if pause() was called during preload
C34_PauseLastsUntilResumeOrStartCompletes ==
  [][/\ (PauseLifted /\ ~StartCompletes) =>
         (/\ enginePauseStateCallback' = "engine"
          /\ UNCHANGED <<isStarted, isPreloaded, lag, pc>>)
     /\ StartCompletes => (~isPaused' /\ isPreloaded')
     /\ TickIterationBegins => ~isPaused]_vars

\* start() completed while a pause() made during preload was in effect
C34_StartLiftedPause ==
  frame.startLiftedPause /\ isPreloaded /\ ~isPaused

\* C35: at most one animation-frame request for Engine.update is pending at
\* any time, so the host runs Engine.update at most once per display frame
C35_AtMostOneRequestPending ==
  rafPending <= 1 /\ rafRunning <= 1

\* the held entries of the queues for a button or key
HeldEntries(queues, id) ==
  {i \in 1..Len(queues["whilemousedown"]) :
     /\ queues["whilemousedown"][i].button = id[1]
     /\ queues["whilemousedown"][i].key = id[2]}
    \cup {i \in 1..Len(queues["whilekeydown"]) :
            /\ queues["whilekeydown"][i].button = id[1]
            /\ queues["whilekeydown"][i].key = id[2]}

\* C36: once the mouse-up of a button or the key-up of a key has fired, no
\* whilemousedown entry for the button and no whilekeydown entry for the key
\* is queued when dispatchQueue runs, whatever pause() and resume() calls were
\* made in between
C36_HeldStateReleased ==
  call.op = "dispatchQueue" =>
    \A id \in calls.released : HeldEntries(call.before, id) = {}

\* the payloads that callbacks enqueued during the dispatch cycles of the
\* invocation before the last one
EnqueuedByCallbacksEarlier ==
  {payload \in call.enqueuedInTicks : payload.echo} \ call.enqueued

\* how often the dispatch cycles of the invocation called cb with the payload
Deliveries(cb, payload) ==
  Cardinality({k \in 1..Len(call.invocationsInTicks) :
                 /\ call.invocationsInTicks[k].callback = cb
                 /\ call.invocationsInTicks[k].payload = payload})

\* how often cb is registered for the type
Registrations(type, cb) ==
  Cardinality({j \in 1..Len(callbackRegistry[type]) :
                 callbackRegistry[type][j] = cb})

\* C37: an event that a callback enqueues while dispatchQueue runs has, once
\* that dispatch cycle and the next have run, been delivered exactly once to
\* every callback registered for its type, and is queued no longer
C37_CallbackEnqueuedDeliveredOnce ==
  call.op = "dispatchQueue" /\ call.tick >= 2 =>
    \A payload \in EnqueuedByCallbacksEarlier :
      /\ payload \notin QueuedIn(queuedEventPayloads[payload.type])
      /\ \A cb \in QueuedIn(callbackRegistry[payload.type]) :
           Deliveries(cb, payload) = Registrations(payload.type, cb)

\* C38: every stored animation state, the active one included, names a
\* texture that textureManager.textures holds, so that no performUpdates
\* call throws on looking up the texture of the active animation
C38_AnimationsNameStoredTextures ==
  /\ \A animationID \in AnimationIDs :
       actor.animations[animationID].present =>
         actor.textures[actor.animations[animationID].textureID].present
  /\ actor.op = "performUpdates" => actor.result # "throws"

\* the keyframe of the active animation that is current
CurrentFrame ==
  actor.animations[actor.animationID].frames[actor.animationFrame + 1]

\* C39: after every updateAnimation call on an actor with an active
\* animation, 0 <= deltaSum < the duration of the frame that is current on
\* return: no elapsed time is carried as a backlog
C39_DeltaSumBelowFrameDuration ==
  actor.op = "performUpdates" /\ actor.animationID # "" =>
    0 <= actor.deltaSum /\ actor.deltaSum < CurrentFrame.duration

\* C31: performDrawCalls leaves pos, vel and lastState of the actor as they
\* were, so that renders between ticks, whatever their interpolation factors,
\* do not change where the ticks take the actor
C31_DrawLeavesSimulationState ==
  actor.op = "performDrawCalls" =>
    /\ actor.pos = actor.entryPos
    /\ actor.vel = actor.entryVel
    /\ Vector(actor.lastPos, actor.lastVel) = actor.lastStateBefore

----------------------------------------------------------------------------
(* Properties of the textures and animation states *)

\* the key frames of the active animation
ActiveFrames == actor.animations[actor.animationID].frames

\* the active animation has been updated with one timestep, not above the
\* duration every one of its frames has, since it was set at frame 0 with
\* deltaSum 0
SteadyRun ==
  /\ actor.run.steady
  /\ actor.run.count > 0
  /\ \A i \in 1 .. Len(ActiveFrames) :
       ActiveFrames[i].duration = ActiveFrames[1].duration
  /\ actor.run.delta <= ActiveFrames[1].duration

ManagerCall(op) == actor.op = op /\ actor.id # ""

\* C22: addTexture with a textureID the actor has, and removeTexture with one
\* it does not have, return false without raising an error and leave the
\* textures as they were
C22_TextureMutationTolerant ==
  /\ (ManagerCall("addTexture")
        /\ actor.managersBefore.textures[actor.id].present)
     => (actor.result = "false"
           /\ actor.textures = actor.managersBefore.textures)
  /\ (ManagerCall("removeTexture")
        /\ ~actor.managersBefore.textures[actor.id].present)
     => (actor.result = "false"
           /\ actor.textures = actor.managersBefore.textures)

\* addTexture on an identifier that is taken has returned false
C22_DuplicateTextureRefused ==
  /\ ManagerCall("addTexture")
  /\ actor.managersBefore.textures[actor.id].present
  /\ actor.result = "false"
  /\ actor.textures[actor.id].imageBitmap = "b1"

\* frameCount, startIndex or frameDuration of the options is out of the range
\* the texture allows
OutOfRange(texture, options) ==
  \/ options.frameCount # -1
       /\ (options.frameCount <= 0 \/ options.frameCount > texture.frameCount)
  \/ options.startIndex < 0
  \/ options.startIndex >= texture.frameCount
  \/ options.frameDuration <= 0

\* the call throws and leaves the animation manager as it was
ThrowsAtomically ==
  /\ actor'.result = "throws"
  /\ Managers(actor') = Managers(actor)

\* C23: addAnimationState with an animationID in use, a textureID the actor
\* does not have or an out-of-range frameCount, startIndex or frameDuration,
\* and removeAnimationState and setAnimationState with an unknown
\* animationID, raise an error and leave the animation manager unchanged:
\* a step that does not throw with the manager as it was is none of these
\* calls
C23_AnimationMutationStrictAndAtomic ==
  [][\/ ThrowsAtomically
     \/ /\ \A animationID \in AnimationIDs, textureID \in TextureIDs,
             options \in AnimationOptionChoices :
             ~(/\ actor'.op = "addAnimationState"
               /\ \/ actor.animations[animationID].present
                  \/ ~actor.textures[textureID].present
                  \/ OutOfRange(actor.textures[textureID], options)
               /\ AddAnimationStateCall(animationID, textureID, options,
                                        MaxAnimationCalls))
        /\ \A animationID \in AnimationIDs :
             ~(/\ actor'.op \in {"removeAnimationState", "setAnimationState"}
               /\ ~actor.animations[animationID].present
               /\ \/ RemoveAnimationStateCall(animationID, MaxAnimationCalls)
                  \/ SetAnimationStateCall(animationID, MaxAnimationCalls))]_vars

\* addAnimationState has thrown on a free animationID with every texture
\* there, and the manager holds an animation state and is as it was
C23_OutOfRangeOptionsThrown ==
  /\ ManagerCall("addAnimationState")
  /\ actor.result = "throws"
  /\ ~actor.managersBefore.animations[actor.id].present
  /\ \E other \in AnimationIDs : actor.animations[other].present
  /\ actor.managersBefore.textures["t1"].present
  /\ Managers(actor) = actor.managersBefore

\* C29: removeAnimationState of an animation state the actor has deletes it
\* and returns true; animationID and animationFrame are reset when it was the
\* active one and stay as they were when it was not
C29_OnlyActiveRemovalResets ==
  (ManagerCall("removeAnimationState")
     /\ actor.managersBefore.animations[actor.id].present)
  => /\ actor.result = "true"
     /\ ~actor.animations[actor.id].present
     /\ actor.managersBefore.animationID = actor.id
          => (actor.animationID = "" /\ actor.animationFrame = 0)
     /\ actor.managersBefore.animationID # actor.id
          => /\ actor.animationID = actor.managersBefore.animationID
             /\ actor.animationFrame = actor.managersBefore.animationFrame

----------------------------------------------------------------------------
(* Properties of the texture handler *)

RECURSIVE RegisteredAfter(_)
\* what is registered after a history of calls: under every identifier the
\* bitmap of the first register call since the last unregister call, if any
RegisteredAfter(history) ==
  IF history = <<>> THEN [id \in CacheIDs |-> NotCached]
  ELSE LET earlier == RegisteredAfter(SubSeq(history, 1, Len(history) - 1))
           last == history[Len(history)]
       IN CASE last.op = "register" /\ ~earlier[last.id].present ->
                 [earlier EXCEPT ![last.id] = Cached(last.bitmap)]
            [] last.op = "unregister" ->
                 [earlier EXCEPT ![last.id] = NotCached]
            [] OTHER -> earlier

LastCacheCall == textureCache.history[Len(textureCache.history)]

CacheCalled(op) ==
  textureCache.history # <<>> /\ LastCacheCall.op = op

\* C24: the cache holds one entry for every identifier registered and not
\* since unregistered, with the bitmap first registered; registering a cached
\* identifier and unregistering one that is not cached raise no error and
\* leave the cache as it was; getting one that is not cached raises an error
C24_CacheHoldsWhatIsRegistered ==
  /\ textureCache.cache = RegisteredAfter(textureCache.history)
  /\ (CacheCalled("register") /\ textureCache.before[LastCacheCall.id].present)
     => /\ textureCache.result # "throws"
        /\ CacheSize(textureCache.cache) = CacheSize(textureCache.before)
        /\ textureCache.cache[LastCacheCall.id]
             = textureCache.before[LastCacheCall.id]
  /\ (CacheCalled("unregister")
        /\ ~textureCache.before[LastCacheCall.id].present)
     => /\ textureCache.result # "throws"
        /\ textureCache.cache = textureCache.before
  /\ (CacheCalled("get") /\ ~textureCache.before[LastCacheCall.id].present)
     => textureCache.result = "throws"

\* a second bitmap was registered under a cached identifier, and the first
\* is still the one in the cache
C24_SecondBitmapNotCached ==
  /\ CacheCalled("register")
  /\ textureCache.before[LastCacheCall.id].present
  /\ textureCache.before[LastCacheCall.id].bitmap # LastCacheCall.bitmap
  /\ textureCache.cache[LastCacheCall.id].bitmap # LastCacheCall.bitmap
  /\ CacheSize(textureCache.cache) = 1

----------------------------------------------------------------------------
(* Properties of one pass of the loop, and of render *)

\* the last pass of the loop ran to its end
PassCompleted ==
  /\ frame.kind \in {"running", "complete"}
  /\ frame.ticks > 0
  /\ frame.passSteps # <<>>

\* C25: a tick iteration queues one ontick event with deltaTime T, ticks the
\* tick-enabled scenes in insertion order and no other scene, dispatches the
\* queue and subtracts T from lag, in this order; its dispatch delivers the
\* one ontick event of the iteration, so every ontick callback is invoked
\* once in an iteration
C25_OneTickEventDeliveredPerIteration ==
  PassCompleted =>
    /\ frame.passSteps
         = <<"queueEvent", "s1", "s3", "dispatchQueue", "subtract">>
    /\ frame.tickPayloads = 1

RenderCalled == FrameDone /\ isPreloaded

\* C27: render on a paused, preloaded engine does not clear the canvas, calls
\* no scene's render, queues no onrender event and does not draw the GUI;
\* on a running engine it draws the render-enabled scenes in insertion order,
\* then queues one onrender event that carries the interpolation factor
\* only, then draws the GUI
C27_RenderDrawsOnlyWhileRunning ==
  /\ (pc = "idle" /\ frame.pausedAtStart
        /\ frame.kind \notin {"none", "preload"})
     => frame.kind = "complete"
  /\ RenderCalled =>
    IF frame.pausedAtExit
      THEN /\ frame.renderSteps = <<"setTransform", "scale">>
           /\ frame.renderQueued = 0
      ELSE /\ frame.renderSteps
                = <<"setTransform", "scale", "clearRect", "s2", "s3",
                    "queueEvent", "parameterGUI">>
           /\ frame.renderQueued = 1
           /\ LET queue == queuedEventPayloads["onrender"]
              IN /\ queue # <<>>
                 /\ queue[Len(queue)]
                      = [interpolationFactor |-> frame.interpolationFactor]

\* the engine was paused when render was called, and nothing was drawn
C27_PausedRenderDrewNothing ==
  /\ RenderCalled
  /\ frame.pausedAtExit
  /\ frame.ticks > 0
  /\ frame.renderSteps = <<"setTransform", "scale">>

----------------------------------------------------------------------------
(* Properties of the actors array *)

\* C28: an actor queued for disposal is removed from the actors array by the
\* filter at the end of the update cycle that observes the flag, not during
\* the iteration of that cycle, and is neither updated nor drawn in a later
\* cycle
C28_QueuedActorsRemovedBySweep ==
  /\ \A i \in 1 .. Len(actors.list) :
       actors.list[i].disposalQueued
         => actors.list[i].flaggedAt = actors.cycles
  /\ actors.updated = actors.drawn

----------------------------------------------------------------------------
(* Properties of the convex shapes *)

\* the projection intervals intersect
Intersect(p1, p2) == p1.min <= p2.max /\ p2.min <= p1.max

\* the normal axes of both shapes
Axes == shapes.a.normals \o shapes.b.normals

\* on every normal axis of either shape the intervals of the two intersect
IntersectOnEveryAxis ==
  \A i \in 1 .. Len(Axes) :
    Intersect(Project(shapes.a, Axes[i]), Project(shapes.b, Axes[i]))

\* C30: checkCollisionm returns true exactly when the projection intervals
\* of the two shapes intersect on every normal axis of either shape, and
\* returns the same with the two shapes swapped
C30_CollisionIffNoSeparatingAxis ==
  shapes.checked =>
    /\ shapes.result = IntersectOnEveryAxis
    /\ CheckCollisionm(shapes.a, shapes.b) = CheckCollisionm(shapes.b, shapes.a)

\* a.checkCollisionm(b) returned false although the test it makes passes on
\* an axis of a on which the intervals are apart (b lies beyond a there)
C30_SeparatedBeyondTheFirstShape ==
  /\ shapes.checked
  /\ shapes.me = "a"
  /\ ~shapes.result
  /\ \E i \in 1 .. Len(shapes.a.normals) :
       LET p1 == Project(shapes.a, shapes.a.normals[i])
           p2 == Project(shapes.b, shapes.a.normals[i])
       IN ~Intersect(p1, p2) /\ AxisTest(p1, p2)

============================================================================
